---- MODULE Spec2Model ----
(***************************************************************************)
(* State-machine model of the rental backend (rental_backend/routes):      *)
(* the persistent tables Item, RentalSession, Strike and Event, the two    *)
(* sweeps and the request handlers that mutate them.  Time is counted in   *)
(* seconds from 00:00:00 of the first day of the current month (UTC).      *)
(***************************************************************************)
EXTENDS Integers, Sequences, FiniteSets, TLC

VARIABLES now, items, sessions, strikes, events, procs

vars == <<now, items, sessions, strikes, events, procs>>

(***************************************************************************)
(* Settings (rental_backend/settings.py).                                  *)
(***************************************************************************)
RENTAL_SESSION_EXPIRY_IN_MINUTES == 15
RENTAL_SESSION_CREATE_TIME_LIMITER_MINUTES == 30
RENTAL_SESSION_CREATE_NUMBER_LIMITER == 2
BASE_OVERDUE == 18

SecondsPerMinute == 60
SecondsPerHour == 60 * SecondsPerMinute
SecondsPerDay == 24 * SecondsPerHour

RENTAL_SESSION_EXPIRY == RENTAL_SESSION_EXPIRY_IN_MINUTES * SecondsPerMinute
LimiterWindow == RENTAL_SESSION_CREATE_TIME_LIMITER_MINUTES * SecondsPerMinute

(***************************************************************************)
(* Bounds of the model.                                                    *)
(***************************************************************************)
\* Sessions created in SpecLifecycle and SpecCatalog, and the seconds their clock runs.
MaxSessions == 2
MaxElapsed == 901
\* Sessions created where the session PATCH is at work (SpecReturn, Spec), and the
\* PATCHes and catalog changes that are accepted.
MaxPatchedSessions == 1
MaxUpdates == 1
MaxCatalogEvents == 1
\* Strikes issued in SpecStrike.
MaxStrikes == 2
\* Sessions created in SpecLimiter, and the seconds its clock runs.
MaxLimiterSessions == 3
MaxLimiterElapsed == 1801

NULL == -1

(***************************************************************************)
(* RentStatus (models/db.py).                                              *)
(***************************************************************************)
RESERVED == "reserved"
ACTIVE == "active"
CANCELED == "canceled"
OVERDUE == "overdue"
RETURNED == "returned"
DISMISSED == "dismissed"
EXPIRED == "expired"

RentStatus == {RESERVED, ACTIVE, CANCELED, OVERDUE, RETURNED, DISMISSED, EXPIRED}
Holding == {RESERVED, ACTIVE, OVERDUE}

(***************************************************************************)
(* The world the requests come from: callers, staff, the catalog.          *)
(***************************************************************************)
Users == {1, 2}
Staff == {9}
ItemTypeIds == {1, 2}
ItemIds == {1, 2}
TypeOfItem == (1 :> 1) @@ (2 :> 2)

\* The clock starts a reservation window before BASE_OVERDUE:00:00 of this day of the
\* month, and advances by a window or by a window and a second.
StartDay == 15
T0 == (StartDay - 1) * SecondsPerDay + BASE_OVERDUE * SecondsPerHour - RENTAL_SESSION_EXPIRY
TickSteps == {RENTAL_SESSION_EXPIRY, RENTAL_SESSION_EXPIRY + 1}

(***************************************************************************)
(* Rows.                                                                   *)
(***************************************************************************)
\* RentalSession.deadline_ts column default: BASE_OVERDUE:00:00 of the day the
\* process was started.
DefaultDeadlineTs == (T0 \div SecondsPerDay) * SecondsPerDay + BASE_OVERDUE * SecondsPerHour

NewSession(user, item, t) ==
    [user_id |-> user, item_id |-> item, admin_open_id |-> NULL, admin_close_id |-> NULL,
     reservation_ts |-> t, start_ts |-> NULL, end_ts |-> NULL, actual_return_ts |-> NULL,
     status |-> RESERVED, deadline_ts |-> DefaultDeadlineTs, is_deleted |-> FALSE]

NoStatus == "none"
Event(action_type, status) ==
    [action_type |-> action_type, status |-> status, is_deleted |-> FALSE]

MostSessions == IF MaxLimiterSessions > MaxSessions THEN MaxLimiterSessions ELSE MaxSessions
SessionKeys == {NULL} \cup (1 .. MostSessions)

DB == [items |-> items, sessions |-> sessions, strikes |-> strikes, events |-> events]

\* What a handler leaves behind: the tables and the response it sends.
\* strike_id is the field of RentalSessionGet that names the session's strike.
Response(res, sid, minutes) ==
    [res |-> res, sid |-> sid, minutes |-> minutes, strike_id |-> NULL]
Ok(sid) == Response("ok", sid, NULL)
Error(kind) == Response(kind, NULL, NULL)
Out(db, response) == [db |-> db, response |-> response]

Commit(db) ==
    /\ items' = db.items
    /\ sessions' = db.sessions
    /\ strikes' = db.strikes
    /\ events' = db.events

\* ActionLogger.log_event: one Event row for the session (or for no session).
log_event(db, key, action_type, status) ==
    [db EXCEPT !.events[key] = Append(@, Event(action_type, status))]

SessionIdsWithDeleted(db) == 1 .. Len(db.sessions)

\* BaseDbModel.query / BaseDbModel.get: rows with is_deleted are not seen.
SessionIds(db) == {i \in 1 .. Len(db.sessions) : ~db.sessions[i].is_deleted}

\* RentalSession.item_type_id: the type of the session's item.
item_type_id(db, i) == db.items[db.sessions[i].item_id].type_id

\* A datetime as a handler holds it: an instant with or without tzinfo. Without
\* tzinfo and with instant NULL it stands for None. The DateTime columns carry no
\* time zone: a loaded attribute is the instant alone.
TimestampFields == {"reservation_ts", "start_ts", "end_ts", "actual_return_ts", "deadline_ts"}
Aware(instant) == [instant |-> instant, tzinfo |-> TRUE]
Naive(instant) == [instant |-> instant, tzinfo |-> FALSE]

\* cur_v != v: a datetime with tzinfo never equals the loaded attribute, which has
\* none (nor None).
differs(row, f, v) ==
    IF f \in TimestampFields THEN v.tzinfo \/ row[f] # v.instant ELSE row[f] # v

\* setattr(obj, k, v) and the flush: the column keeps the instant.
stored(f, v) == IF f \in TimestampFields THEN v.instant ELSE v

update_resetting_unset(row, kwargs) ==
    [changed |-> \E f \in DOMAIN kwargs : differs(row, f, kwargs[f]),
     row |-> [f \in DOMAIN row |->
                IF f \in DOMAIN kwargs THEN stored(f, kwargs[f])
                ELSE IF f \in {"end_ts", "actual_return_ts", "admin_close_id"} THEN NULL
                ELSE row[f]]]

\* BaseDbModel.update: assigns the given fields; when none of them differs from the
\* row's current value the call is refused (AlreadyExists).
update(row, kwargs) ==
    [changed |-> \E f \in DOMAIN kwargs : differs(row, f, kwargs[f]),
     row |-> [f \in DOMAIN row |->
                IF f \in DOMAIN kwargs THEN stored(f, kwargs[f]) ELSE row[f]]]

(***************************************************************************)
(* The sweeps.                                                             *)
(***************************************************************************)
ExpiredIdsAtWindowEnd(db, t) ==
    {i \in SessionIds(db) :
        /\ db.sessions[i].status = RESERVED
        /\ db.sessions[i].reservation_ts <= t - RENTAL_SESSION_EXPIRY}

ExpiredIds(db, t) ==
    {i \in SessionIds(db) :
        /\ db.sessions[i].status = RESERVED
        /\ db.sessions[i].reservation_ts < t - RENTAL_SESSION_EXPIRY}

check_sessions_expiration_keeping_items(db, t) ==
    LET stale == ExpiredIds(db, t)
    IN [db EXCEPT
          !.sessions = [i \in 1 .. Len(db.sessions) |->
                          IF i \in stale
                          THEN [db.sessions[i] EXCEPT !.status = EXPIRED]
                          ELSE db.sessions[i]],
          !.events = [k \in DOMAIN db.events |->
                          IF k \in stale
                          THEN Append(db.events[k], Event("EXPIRE_SESSION", EXPIRED))
                          ELSE db.events[k]]]

check_sessions_expiration(db, t) ==
    LET stale == ExpiredIds(db, t)
    IN [db EXCEPT
          !.sessions = [i \in 1 .. Len(db.sessions) |->
                          IF i \in stale
                          THEN [db.sessions[i] EXCEPT !.status = EXPIRED]
                          ELSE db.sessions[i]],
          !.items = [k \in DOMAIN db.items |->
                          IF \E i \in stale : db.sessions[i].item_id = k
                          THEN [db.items[k] EXCEPT !.is_available = TRUE]
                          ELSE db.items[k]],
          !.events = [k \in DOMAIN db.events |->
                          IF k \in stale
                          THEN Append(db.events[k], Event("EXPIRE_SESSION", EXPIRED))
                          ELSE db.events[k]]]

OverdueIdsAtDeadline(db, t) ==
    {i \in SessionIds(db) :
        /\ db.sessions[i].status = ACTIVE
        /\ db.sessions[i].deadline_ts <= t}

OverdueIds(db, t) ==
    {i \in SessionIds(db) :
        /\ db.sessions[i].status = ACTIVE
        /\ db.sessions[i].deadline_ts < t}

check_sessions_overdue(db, t) ==
    LET late == OverdueIds(db, t)
    IN [db EXCEPT
          !.sessions = [i \in 1 .. Len(db.sessions) |->
                          IF i \in late
                          THEN [db.sessions[i] EXCEPT !.status = OVERDUE]
                          ELSE db.sessions[i]],
          !.events = [k \in DOMAIN db.events |->
                          IF k \in late
                          THEN Append(db.events[k], Event("OVERDUE_SESSION", OVERDUE))
                          ELSE db.events[k]]]

(***************************************************************************)
(* POST /rental-sessions/{item_type_id}                                    *)
(***************************************************************************)
Min(S) == CHOOSE x \in S : \A y \in S : x <= y
Max2(a, b) == IF a >= b THEN a ELSE b

\* int(x / 60) of a float: truncation toward zero.
TruncDiv(a, b) == IF a >= 0 THEN a \div b ELSE -((-a) \div b)

minutes_left_rounded_up(reset_time, t) ==
    Max2(0, (reset_time - t + SecondsPerMinute - 1) \div SecondsPerMinute)

minutes_left(reset_time, t) == Max2(0, TruncDiv(reset_time - t, SecondsPerMinute))

exist_session_item(db, user, type) ==
    {i \in SessionIds(db) :
        db.sessions[i].user_id = user /\ item_type_id(db, i) = type}

blocking_session_reserved_only(db, user, type) ==
    {i \in exist_session_item(db, user, type) : db.sessions[i].status = RESERVED}

blocking_session(db, user, type) ==
    {i \in exist_session_item(db, user, type) : db.sessions[i].status \in Holding}

rate_limiter_sessions_closed_window(db, user, type, t) ==
    {i \in exist_session_item(db, user, type) :
        /\ db.sessions[i].status \in {EXPIRED, CANCELED}
        /\ db.sessions[i].reservation_ts >= t - LimiterWindow}

rate_limiter_sessions_any_closed(db, user, type, t) ==
    {i \in exist_session_item(db, user, type) :
        /\ db.sessions[i].status \notin Holding
        /\ db.sessions[i].reservation_ts > t - LimiterWindow}

rate_limiter_sessions(db, user, type, t) ==
    {i \in exist_session_item(db, user, type) :
        /\ db.sessions[i].status \in {EXPIRED, CANCELED}
        /\ db.sessions[i].reservation_ts > t - LimiterWindow}

available_item_of_any_type(db, type) ==
    {k \in DOMAIN db.items : ~db.items[k].is_deleted /\ db.items[k].is_available}

available_item(db, type) ==
    {k \in DOMAIN db.items :
        /\ ~db.items[k].is_deleted
        /\ db.items[k].type_id = type
        /\ db.items[k].is_available}

InsertSession(db, user, item, t) ==
    LET sid == Len(db.sessions) + 1
        db1 == [db EXCEPT !.sessions = Append(@, NewSession(user, item, t)),
                          !.items[item].is_available = FALSE]
    IN log_event(db1, sid, "CREATE_SESSION", RESERVED)

create_rental_session_item_before_limiter(db, t, user, type, first) ==
    LET db1 == check_sessions_expiration(db, t)
        limited == rate_limiter_sessions(db1, user, type, t)
    IN IF blocking_session(db1, user, type) # {}
       THEN Out(db1, Error("SessionExists"))
       ELSE IF available_item(db1, type) = {}
       THEN Out(db1, Error("NoneAvailable"))
       ELSE IF Cardinality(limited) >= RENTAL_SESSION_CREATE_NUMBER_LIMITER
       THEN LET oldest == Min({db1.sessions[i].reservation_ts : i \in limited})
            IN Out(db1, Response("RateLimiterError", NULL,
                                 minutes_left(oldest + LimiterWindow, t)))
       ELSE Out(InsertSession(db1, user, first, t), Ok(Len(db1.sessions) + 1))

\* `first` is the row the database returns for the available-item query's .first()
\* (the query has no ORDER BY); it is read only when some item is available.
create_rental_session(db, t, user, type, first) ==
    LET db1 == check_sessions_expiration(db, t)
        limited == rate_limiter_sessions(db1, user, type, t)
    IN IF blocking_session(db1, user, type) # {}
       THEN Out(db1, Error("SessionExists"))
       ELSE IF Cardinality(limited) >= RENTAL_SESSION_CREATE_NUMBER_LIMITER
       THEN LET oldest == Min({db1.sessions[i].reservation_ts : i \in limited})
            IN Out(db1, Response("RateLimiterError", NULL,
                                 minutes_left(oldest + LimiterWindow, t)))
       ELSE IF available_item(db1, type) = {}
       THEN Out(db1, Error("NoneAvailable"))
       ELSE Out(InsertSession(db1, user, first, t), Ok(Len(db1.sessions) + 1))

\* The rows .first() may return.
FirstAvailable(db, t, type) ==
    LET av == available_item(check_sessions_expiration(db, t), type)
    IN IF av = {} THEN {NULL} ELSE av

(***************************************************************************)
(* PATCH /rental-sessions/{session_id}/start                               *)
(***************************************************************************)
DaysInMonth == 30
DayOfMonth(t) == t \div SecondsPerDay + 1

\* now.replace(hour=BASE_OVERDUE, minute=0, second=0, microsecond=0)
ReplaceHour(t) == (t \div SecondsPerDay) * SecondsPerDay + BASE_OVERDUE * SecondsPerHour

\* The deadline of a Start without an explicit one; NULL stands for the ValueError
\* of now.replace(day=now.day + 1) on the last day of a month.
new_deadline(t) ==
    IF t > ReplaceHour(t)
    THEN IF DayOfMonth(t) + 1 > DaysInMonth THEN NULL ELSE ReplaceHour(t) + SecondsPerDay
    ELSE ReplaceHour(t)

\* A deadline_ts of the query string is the instant it denotes together with its UTC
\* offset in seconds (0 when it is written with "Z" or without an offset).
\* deadline_ts.replace(tzinfo=utc) keeps the wall-clock reading and calls it UTC.
replace_tzinfo(deadline_ts, utcoffset) == deadline_ts + utcoffset

validate_deadline_ts(deadline_ts, utcoffset, t) ==
    ~(deadline_ts # NULL /\ replace_tzinfo(deadline_ts, utcoffset) <= t)

StartFieldsWithoutAdmin(staff, deadline_ts, t) ==
    [status |-> ACTIVE, start_ts |-> Aware(t),
     deadline_ts |-> Aware(IF deadline_ts # NULL THEN deadline_ts ELSE new_deadline(t))]

StartFields(staff, deadline_ts, t) ==
    [status |-> ACTIVE, start_ts |-> Aware(t), admin_open_id |-> staff,
     deadline_ts |-> Aware(IF deadline_ts # NULL THEN deadline_ts ELSE new_deadline(t))]

start_rental_session(db, t, sid, staff, deadline_ts, utcoffset) ==
    LET db1 == check_sessions_expiration(db, t)
    IN IF ~validate_deadline_ts(deadline_ts, utcoffset, t)
       THEN Out(db1, Error("InvalidDeadline"))
       ELSE IF sid \notin SessionIds(db1)
       THEN Out(db1, Error("ObjectNotFound"))
       ELSE IF db1.sessions[sid].status # RESERVED
       THEN Out(db1, Error("ForbiddenAction"))
       ELSE IF deadline_ts = NULL /\ new_deadline(t) = NULL
       THEN Out(db1, Error("InternalServerError"))
       ELSE LET upd == update(db1.sessions[sid], StartFields(staff, deadline_ts, t))
                db2 == [db1 EXCEPT !.sessions[sid] = upd.row]
            IN IF ~upd.changed
               THEN Out(db1, Error("AlreadyExists"))
               ELSE Out(log_event(db2, sid, "START_SESSION", ACTIVE), Ok(sid))

(***************************************************************************)
(* PATCH /rental-sessions/{session_id}/return                              *)
(***************************************************************************)
ReturnFieldsOverwritingEnd(row, staff, t) ==
    [status |-> RETURNED, end_ts |-> Aware(t), actual_return_ts |-> Aware(t),
     admin_close_id |-> staff]

ReturnFields(row, staff, t) ==
    [status |-> RETURNED,
     end_ts |-> IF row.end_ts = NULL THEN Aware(t) ELSE Naive(row.end_ts),
     actual_return_ts |-> Aware(t),
     admin_close_id |-> staff]

NewStrikeOfStaff(user, staff, reason, sid, t) ==
    [user_id |-> staff, admin_id |-> staff, reason |-> reason, session_id |-> sid,
     create_ts |-> t, is_deleted |-> FALSE]

\* StrikePost(...) and Strike.create(..., create_ts = now)
NewStrike(user, staff, reason, sid, t) ==
    [user_id |-> user, admin_id |-> staff, reason |-> reason, session_id |-> sid,
     create_ts |-> t, is_deleted |-> FALSE]

ReturnStrike(db, sid, staff, reason, t) ==
    LET db1 == [db EXCEPT !.strikes =
                    Append(@, NewStrike(db.sessions[sid].user_id, staff, reason, sid, t))]
    IN log_event(db1, sid, "CREATE_STRIKE", NoStatus)

\* ended_session.strike_id = new_strike.id: the response names the new strike row.
WithStrikeId(response, db) == [response EXCEPT !.strike_id = Len(db.strikes)]

ReleaseItemKept(db, sid) == db

\* session.item.is_available = True
ReleaseItem(db, sid) == [db EXCEPT !.items[db.sessions[sid].item_id].is_available = TRUE]

InactiveSessionUnlessReturned(row) ==
    row.status # ACTIVE /\ row.status # OVERDUE /\ row.status # RETURNED

\* The status test of the return handler.
InactiveSession(row) == row.status # ACTIVE /\ row.status # OVERDUE

accept_end_rental_session(db, t, sid, staff, with_strike, strike_reason) ==
    IF sid \notin SessionIds(db)
    THEN Out(db, Error("ObjectNotFound"))
    ELSE IF InactiveSession(db.sessions[sid])
    THEN Out(db, Error("InactiveSession"))
    ELSE LET upd == update(db.sessions[sid], ReturnFields(db.sessions[sid], staff, t))
             db1 == ReleaseItem([db EXCEPT !.sessions[sid] = upd.row], sid)
             db2 == log_event(db1, sid, "RETURN_SESSION", RETURNED)
         IN IF ~upd.changed
            THEN Out(db, Error("AlreadyExists"))
            ELSE IF with_strike
            THEN LET db3 == ReturnStrike(db2, sid, staff, strike_reason, t)
                 IN Out(db3, WithStrikeId(Ok(sid), db3))
            ELSE Out(db2, Ok(sid))

(***************************************************************************)
(* DELETE /rental-sessions/{session_id}/cancel                             *)
(***************************************************************************)
CancelFieldsWithoutEnd(t) == [status |-> CANCELED]

CancelFields(t) == [status |-> CANCELED, end_ts |-> Aware(t)]

cancel_rental_session(db, t, sid, user) ==
    LET db1 == check_sessions_expiration(db, t)
    IN IF sid \notin SessionIds(db1)
       THEN Out(db1, Error("ObjectNotFound"))
       ELSE IF user # db1.sessions[sid].user_id
       THEN Out(db1, Error("ForbiddenAction"))
       ELSE IF db1.sessions[sid].status # RESERVED
       THEN Out(db1, Error("ForbiddenAction"))
       ELSE LET upd == update(db1.sessions[sid], CancelFields(t))
                db2 == ReleaseItem([db1 EXCEPT !.sessions[sid] = upd.row], sid)
            IN IF ~upd.changed
               THEN Out(db1, Error("AlreadyExists"))
               ELSE Out(log_event(db2, sid, "CANCEL_SESSION", CANCELED), Ok(sid))

(***************************************************************************)
(* PATCH /rental-sessions/{session_id}  (RentalSessionPatch, exclude_unset)*)
(***************************************************************************)
update_rental_session(db, sid, staff, upd_data) ==
    IF sid \notin SessionIds(db)
    THEN Out(db, Error("ObjectNotFound"))
    ELSE LET upd == update(db.sessions[sid], upd_data)
             db1 == [db EXCEPT !.sessions[sid] = upd.row]
         IN IF ~upd.changed
            THEN Out(db, Error("AlreadyExists"))
            ELSE Out(log_event(db1, sid, "UPDATE_SESSION", upd.row.status), Ok(sid))

(***************************************************************************)
(* DELETE /rental-sessions/{session_id}  (BaseDbModel.delete: soft delete) *)
(***************************************************************************)
delete_rental_session(db, sid) ==
    IF sid \notin SessionIds(db)
    THEN Out(db, Error("ObjectNotFound"))
    ELSE IF db.sessions[sid].status \in {ACTIVE, RESERVED, OVERDUE}
    THEN Out(db, Error("ForbiddenAction"))
    ELSE Out([db EXCEPT !.sessions[sid].is_deleted = TRUE], Ok(NULL))

(***************************************************************************)
(* POST /strike  (StrikePost: user_id, admin_id, reason, session_id)       *)
(***************************************************************************)
\* db.session.query(RentalSession).filter(RentalSession.id == session_id): every row,
\* deleted or not; no row has the id None.
create_strike(db, t, strike_info, staff) ==
    IF strike_info.session_id \notin 1 .. Len(db.sessions)
    THEN Out(db, Error("ObjectNotFound"))
    ELSE LET db1 == [db EXCEPT !.strikes =
                        Append(@, NewStrike(strike_info.user_id, strike_info.admin_id,
                                            strike_info.reason, strike_info.session_id, t))]
         IN Out(log_event(db1, strike_info.session_id, "CREATE_STRIKE", NoStatus),
                [Ok(strike_info.session_id) EXCEPT !.strike_id = Len(db1.strikes)])

(***************************************************************************)
(* GET /rental-sessions...: both sweeps run before the read.               *)
(***************************************************************************)
get_rental_sessions(db, t) ==
    Out(check_sessions_overdue(check_sessions_expiration(db, t), t), Ok(NULL))

(***************************************************************************)
(* PATCH /item/{id}                                                        *)
(***************************************************************************)
update_item(db, id, is_available, staff) ==
    IF ~(id \in DOMAIN db.items /\ ~db.items[id].is_deleted)
    THEN Out(db, Error("ObjectNotFound"))
    ELSE LET upd == update(db.items[id], [is_available |-> is_available])
             db1 == [db EXCEPT !.items[id] = upd.row]
         IN IF ~upd.changed
            THEN Out(db, Error("AlreadyExists"))
            ELSE Out(log_event(db1, NULL, "UPDATE_ITEM", NoStatus), Ok(NULL))

(***************************************************************************)
(* DELETE /item/{id}                                                       *)
(***************************************************************************)
\* db.session.query(RentalSession).filter(RentalSession.item_id == id): a plain
\* query, soft-deleted sessions included.
SessionsOfItem(db, id) == {i \in 1 .. Len(db.sessions) : db.sessions[i].item_id = id}

\* The loop body for the sessions in `order`: RentalSession.delete, Strike.delete of
\* its strikes, Event.delete of its events.  Each delete goes through
\* BaseDbModel.get and raises ObjectNotFound on a row that is deleted already;
\* what was deleted before stays deleted.
RECURSIVE delete_sessions(_, _)
delete_sessions(db, order) ==
    IF order = <<>> THEN Out(db, Ok(NULL))
    ELSE LET i == Head(order)
             mine == {n \in 1 .. Len(db.strikes) : db.strikes[n].session_id = i}
             bad == {n \in mine : db.strikes[n].is_deleted}
             upto == IF bad = {} THEN Len(db.strikes) ELSE Min(bad) - 1
             db1 == [db EXCEPT !.sessions[i].is_deleted = TRUE]
             db2 == [db1 EXCEPT !.strikes =
                        [n \in 1 .. Len(db.strikes) |->
                           IF n \in mine /\ n <= upto
                           THEN [db.strikes[n] EXCEPT !.is_deleted = TRUE]
                           ELSE db.strikes[n]]]
             db3 == [db2 EXCEPT !.events[i] =
                        [n \in 1 .. Len(db.events[i]) |->
                           [db.events[i][n] EXCEPT !.is_deleted = TRUE]]]
         IN IF db.sessions[i].is_deleted THEN Out(db, Error("ObjectNotFound"))
            ELSE IF bad # {} THEN Out(db2, Error("ObjectNotFound"))
            ELSE delete_sessions(db3, Tail(order))

\* `order` are the item's sessions in the order the query returns them.
delete_item(db, id, staff, order) ==
    LET holding == {i \in SessionsOfItem(db, id) : db.sessions[i].status \in Holding}
    IN IF Cardinality(holding) > 1
       THEN Out(db, Error("MultipleResultsFound"))
       ELSE IF holding # {}
       THEN Out(db, Error("ObjectNotFound"))
       ELSE IF ~(id \in DOMAIN db.items /\ ~db.items[id].is_deleted)
       THEN Out(db, Error("ObjectNotFound"))
       ELSE LET out == delete_sessions([db EXCEPT !.items[id].is_deleted = TRUE], order)
            IN IF out.response.res # "ok" THEN out
               ELSE Out(log_event(out.db, NULL, "DELETE_ITEM", NoStatus), Ok(NULL))

SessionOrders(db, id) ==
    LET rows == SessionsOfItem(db, id)
    IN {order \in [1 .. Cardinality(rows) -> rows] :
          \A m, n \in DOMAIN order : m # n => order[m] # order[n]}

(***************************************************************************)
(* PATCH /itemtype/available/{id}                                          *)
(***************************************************************************)
\* Items of the type that no ACTIVE or RESERVED session refers to.
ItemsWithoutSession(db, type) ==
    {k \in DOMAIN db.items :
        /\ db.items[k].type_id = type
        /\ ~\E i \in 1 .. Len(db.sessions) :
              /\ db.sessions[i].item_id = k
              /\ db.sessions[i].status \in {ACTIVE, RESERVED}}

SetAvailability(db, flipped, value) ==
    [db EXCEPT
       !.items = [k \in DOMAIN db.items |->
                    IF k \in flipped THEN [db.items[k] EXCEPT !.is_available = value]
                    ELSE db.items[k]],
       !.events[NULL] = @ \o [n \in 1 .. Cardinality(flipped) |->
                                Event("AVAILABLE_ITEM_TYPE", NoStatus)]]

\* How many items the handler flips, and to which value.
FlipCount(db, id, count) ==
    LET pool == ItemsWithoutSession(db, id)
        n_av == Cardinality({k \in pool : db.items[k].is_available})
        n_un == Cardinality({k \in pool : ~db.items[k].is_available})
    IN IF n_av >= count THEN n_av - count
       ELSE IF n_un < count - n_av THEN n_un ELSE count - n_av

\* Item.update goes through BaseDbModel.get: it raises ObjectNotFound at the first
\* soft-deleted row, and the rows flipped before it stay flipped.
Updated(db, order) ==
    LET bad == {n \in 1 .. Len(order) : db.items[order[n]].is_deleted}
    IN IF bad = {} THEN Len(order) ELSE Min(bad) - 1

\* The response body: items_changed and total_available of ItemTypeAvailable.
ItemTypeAvailable(items_changed, total_available) ==
    [res |-> "ok", items_changed |-> items_changed, total_available |-> total_available]

\* `order` are the rows the loop visits: the first rows of available_items or of
\* unavailable_items, in the order the query returns them (no ORDER BY).
make_item_type_available(db, id, count, staff, order) ==
    LET pool == ItemsWithoutSession(db, id)
        n_av == Cardinality({k \in pool : db.items[k].is_available})
        value == ~(n_av >= count)
        done == Updated(db, order)
        db1 == SetAvailability(db, {order[n] : n \in 1 .. done}, value)
    IN IF count < 0
       THEN Out(db, Error("ValueError"))
       ELSE IF id \notin ItemTypeIds
       THEN Out(db, Error("ObjectNotFound"))
       ELSE IF done < Len(order)
       THEN Out(db1, Error("ObjectNotFound"))
       ELSE Out(db1, ItemTypeAvailable(Len(order), IF value THEN n_av + Len(order)
                                                    ELSE n_av - Len(order)))

FlipChoices(db, id, count) ==
    LET pool == ItemsWithoutSession(db, id)
        av == {k \in pool : db.items[k].is_available}
        rows == IF Cardinality(av) >= count THEN av ELSE pool \ av
    IN IF count < 0 \/ id \notin ItemTypeIds THEN {<<>>}
       ELSE {order \in [1 .. FlipCount(db, id, count) -> rows] :
               \A m, n \in DOMAIN order : m # n => order[m] # order[n]}

(***************************************************************************)
(* The requests, with their inputs.                                        *)
(***************************************************************************)
SessionIdInputs == 1 .. (Len(sessions) + 1)
ExplicitDeadlines == {NULL, now, now + RENTAL_SESSION_EXPIRY}
StrikeReasons == {"late"}
\* strike_reason as the query accepts it: "" is the default of an omitted reason.
StrikeReasonInputs == {"", "late", "broken"}

\* Request bodies of the session PATCH: every subset of the four fields, each
\* field null or set; a timestamp is written with a UTC offset ("...Z") or without.
PatchTs == T0 - SecondsPerHour
PatchFields == {"status", "end_ts", "actual_return_ts", "admin_close_id"}
PatchDatetimes == {Naive(NULL), Naive(PatchTs), Aware(PatchTs)}
FullPayloads ==
    [status : RentStatus, end_ts : PatchDatetimes,
     actual_return_ts : PatchDatetimes, admin_close_id : {NULL} \cup Staff]
Payloads ==
    {[f \in fields |-> full[f]] : full \in FullPayloads, fields \in SUBSET PatchFields}

UpdateCount ==
    Cardinality(UNION {{<<k, n>> : n \in {m \in 1 .. Len(events[k]) :
                                      events[k][m].action_type = "UPDATE_SESSION"}} :
                          k \in 1 .. Len(sessions)})

CreateUpTo(cap) ==
    /\ \E user \in Users, type \in ItemTypeIds :
         \E first \in FirstAvailable(DB, now, type) :
            LET out == create_rental_session(DB, now, user, type, first)
            IN /\ Len(out.db.sessions) <= cap
               /\ Commit(out.db)
    /\ UNCHANGED <<now, procs>>

Create == CreateUpTo(MaxSessions)

Start ==
    /\ \E sid \in SessionIdInputs, staff \in Staff, deadline_ts \in ExplicitDeadlines :
          Commit(start_rental_session(DB, now, sid, staff, deadline_ts, 0).db)
    /\ UNCHANGED <<now, procs>>

\* Deadlines of the query string an hour before now, now and an hour after now,
\* written with "Z" or with an offset of three hours east or west of UTC.
OffsetDeadlines == {now - SecondsPerHour, now, now + SecondsPerHour}
UtcOffsets == {-3 * SecondsPerHour, 0, 3 * SecondsPerHour}

StartWithOffset ==
    /\ \E sid \in SessionIdInputs, staff \in Staff, deadline_ts \in OffsetDeadlines,
          utcoffset \in UtcOffsets :
          Commit(start_rental_session(DB, now, sid, staff, deadline_ts, utcoffset).db)
    /\ UNCHANGED <<now, procs>>

ReturnWith(strike_choices) ==
    /\ \E sid \in SessionIdInputs, staff \in Staff, with_strike \in strike_choices,
          reason \in StrikeReasons :
          Commit(accept_end_rental_session(DB, now, sid, staff, with_strike, reason).db)
    /\ UNCHANGED <<now, procs>>

Return == ReturnWith(BOOLEAN)
ReturnWithoutStrike == ReturnWith({FALSE})

Cancel ==
    /\ \E sid \in SessionIdInputs, user \in Users :
          Commit(cancel_rental_session(DB, now, sid, user).db)
    /\ UNCHANGED <<now, procs>>

SweepReservationExpiry ==
    /\ Commit(check_sessions_expiration(DB, now))
    /\ UNCHANGED <<now, procs>>

SweepOverdue ==
    /\ Commit(check_sessions_overdue(DB, now))
    /\ UNCHANGED <<now, procs>>

Get ==
    /\ Commit(get_rental_sessions(DB, now).db)
    /\ UNCHANGED <<now, procs>>

AdminUpdateWith(payloads) ==
    /\ UpdateCount < MaxUpdates
    /\ \E sid \in SessionIdInputs, staff \in Staff, upd_data \in payloads :
          Commit(update_rental_session(DB, sid, staff, upd_data).db)
    /\ UNCHANGED <<now, procs>>

AdminUpdate == AdminUpdateWith(Payloads)

Delete ==
    /\ \E sid \in SessionIdInputs : Commit(delete_rental_session(DB, sid).db)
    /\ UNCHANGED <<now, procs>>

\* Bodies of POST /strike: the session id is optional.
StrikePosts ==
    [user_id : Users, admin_id : Staff, reason : StrikeReasons,
     session_id : {NULL} \cup SessionIdInputs]

IssueStrike ==
    /\ Len(strikes) < MaxStrikes
    /\ \E strike_info \in StrikePosts, staff \in Staff :
          Commit(create_strike(DB, now, strike_info, staff).db)
    /\ UNCHANGED <<now, procs>>

UpdateItem ==
    /\ Len(events[NULL]) < MaxCatalogEvents
    /\ \E id \in ItemIds, is_available \in BOOLEAN, staff \in Staff :
          Commit(update_item(DB, id, is_available, staff).db)
    /\ UNCHANGED <<now, procs>>

\* Item ids of requests: the catalog's and one that names no item.
ItemIdInputs == 1 .. (Cardinality(ItemIds) + 1)

DeleteItem ==
    /\ Len(events[NULL]) < MaxCatalogEvents
    /\ \E id \in ItemIdInputs, staff \in Staff :
         \E order \in SessionOrders(DB, id) :
            Commit(delete_item(DB, id, staff, order).db)
    /\ UNCHANGED <<now, procs>>

MakeAvailable ==
    /\ Len(events[NULL]) < MaxCatalogEvents
    /\ \E id \in ItemTypeIds, count \in -1 .. 2, staff \in Staff :
         \E order \in FlipChoices(DB, id, count) :
            Commit(make_item_type_available(DB, id, count, staff, order).db)
    /\ UNCHANGED <<now, procs>>

(***************************************************************************)
(* Time.                                                                   *)
(***************************************************************************)
TickWithin(horizon) ==
    /\ \E d \in TickSteps : now + d <= T0 + horizon /\ now' = now + d
    /\ UNCHANGED <<items, sessions, strikes, events, procs>>

Tick == TickWithin(MaxElapsed)

(***************************************************************************)
(* Two requests to POST /rental-sessions/{item_type_id} served at the same *)
(* time by two workers.  The engine runs with isolation_level AUTOCOMMIT   *)
(* and the handler takes no lock, so every SQL statement of a request is a *)
(* step of its own and the statements of the two requests interleave.      *)
(***************************************************************************)
ProcIds == {1, 2}
Idle == [pc |-> "idle", user |-> NULL, type |-> NULL, item |-> NULL, sid |-> NULL,
         res |-> NoStatus]
Done(p, res) == procs' = [procs EXCEPT ![p].pc = "done", ![p].res = res]
Goto(p, pc) == procs' = [procs EXCEPT ![p].pc = pc]
ReadOnly == UNCHANGED <<now, items, sessions, strikes, events>>

ReceiveCreate(p) ==
    /\ procs[p].pc = "idle"
    /\ \E user \in Users, type \in ItemTypeIds :
          procs' = [procs EXCEPT ![p].pc = "dependency", ![p].user = user,
                                 ![p].type = type]
    /\ ReadOnly

\* dependencies=[Depends(check_sessions_expiration)]
RunDependency(p) ==
    /\ procs[p].pc = "dependency"
    /\ Commit(check_sessions_expiration(DB, now))
    /\ Goto(p, "blocking")
    /\ UNCHANGED now

QueryBlocking(p) ==
    /\ procs[p].pc = "blocking"
    /\ IF blocking_session(DB, procs[p].user, procs[p].type) # {}
       THEN Done(p, "SessionExists")
       ELSE Goto(p, "limiter")
    /\ ReadOnly

QueryRateLimiter(p) ==
    /\ procs[p].pc = "limiter"
    /\ IF Cardinality(rate_limiter_sessions(DB, procs[p].user, procs[p].type, now))
            >= RENTAL_SESSION_CREATE_NUMBER_LIMITER
       THEN Done(p, "RateLimiterError")
       ELSE Goto(p, "find")
    /\ ReadOnly

QueryAvailableItem(p) ==
    /\ procs[p].pc = "find"
    /\ IF available_item(DB, procs[p].type) = {}
       THEN Done(p, "NoneAvailable")
       ELSE \E first \in available_item(DB, procs[p].type) :
               procs' = [procs EXCEPT ![p].pc = "insert", ![p].item = first]
    /\ ReadOnly

\* RentalSession.create: INSERT and flush.
InsertRentalSession(p) ==
    /\ procs[p].pc = "insert"
    /\ sessions' = Append(sessions, NewSession(procs[p].user, procs[p].item, now))
    /\ procs' = [procs EXCEPT ![p].pc = "mark", ![p].sid = Len(sessions) + 1]
    /\ UNCHANGED <<now, items, strikes, events>>

\* available_item.is_available = False, written by the commit of log_event.
MarkUnavailable(p) ==
    /\ procs[p].pc = "mark"
    /\ items' = [items EXCEPT ![procs[p].item].is_available = FALSE]
    /\ events' = [events EXCEPT ![procs[p].sid] =
                      Append(@, Event("CREATE_SESSION", RESERVED))]
    /\ Done(p, "ok")
    /\ UNCHANGED <<now, sessions, strikes>>

(***************************************************************************)
(* Requests served at the same time by two workers, statement by statement:*)
(* a read (GET /rental-sessions, which runs both sweeps), a Return and a   *)
(* Cancel (which runs the expiry sweep first).  A handler decides on the   *)
(* row as it has loaded it and writes with UPDATE ... WHERE id = :id.      *)
(***************************************************************************)
IdleRequest == [pc |-> "idle", op |-> NoStatus, sid |-> NULL, user |-> NULL,
                todo |-> {}, loaded |-> <<>>, res |-> NoStatus]

ReceiveGet(p) ==
    /\ procs[p].pc = "idle"
    /\ procs' = [procs EXCEPT ![p].pc = "read_expired", ![p].op = "get"]
    /\ ReadOnly

ReceiveReturn(p) ==
    /\ procs[p].pc = "idle"
    /\ \E sid \in SessionIdInputs, staff \in Staff :
          procs' = [procs EXCEPT ![p].pc = "load", ![p].op = "return",
                                 ![p].sid = sid, ![p].user = staff]
    /\ ReadOnly

\* PATCH /rental-sessions/{session_id}/return?with_strike=true
ReceiveReturnWithStrike(p) ==
    /\ procs[p].pc = "idle"
    /\ \E sid \in SessionIdInputs, staff \in Staff :
          procs' = [procs EXCEPT ![p].pc = "load", ![p].op = "return_strike",
                                 ![p].sid = sid, ![p].user = staff]
    /\ ReadOnly

\* PATCH /rental-sessions/{session_id}/start without a deadline.
ReceiveStart(p) ==
    /\ procs[p].pc = "idle"
    /\ \E sid \in SessionIdInputs, staff \in Staff :
          procs' = [procs EXCEPT ![p].pc = "read_expired", ![p].op = "start",
                                 ![p].sid = sid, ![p].user = staff]
    /\ ReadOnly

IsReturn(p) == procs[p].op \in {"return", "return_strike"}

ReceiveCancel(p) ==
    /\ procs[p].pc = "idle"
    /\ \E sid \in SessionIdInputs, user \in Users :
          procs' = [procs EXCEPT ![p].pc = "read_expired", ![p].op = "cancel",
                                 ![p].sid = sid, ![p].user = user]
    /\ ReadOnly

\* What follows the expiry sweep in the request.
AfterExpiry(p) == IF procs[p].op = "get" THEN "read_overdue" ELSE "load"

\* check_sessions_expiration: the query for the candidates.
ReadExpired(p) ==
    /\ procs[p].pc = "read_expired"
    /\ LET stale == ExpiredIds(DB, now)
       IN procs' = [procs EXCEPT ![p].todo = stale,
                                 ![p].pc = IF stale = {} THEN AfterExpiry(p)
                                                        ELSE "write_expired"]
    /\ ReadOnly

\* check_sessions_expiration: one turn of the loop, written by the commit of
\* log_event.
WriteExpired(p) ==
    /\ procs[p].pc = "write_expired"
    /\ \E i \in procs[p].todo :
          /\ sessions' = [sessions EXCEPT ![i].status = EXPIRED]
          /\ items' = [items EXCEPT ![sessions[i].item_id].is_available = TRUE]
          /\ events' = [events EXCEPT ![i] = Append(@, Event("EXPIRE_SESSION", EXPIRED))]
          /\ procs' = [procs EXCEPT ![p].todo = @ \ {i},
                                    ![p].pc = IF procs[p].todo = {i} THEN AfterExpiry(p)
                                                                     ELSE "write_expired"]
    /\ UNCHANGED <<now, strikes>>

\* check_sessions_overdue: the query for the candidates.
ReadOverdue(p) ==
    /\ procs[p].pc = "read_overdue"
    /\ LET late == OverdueIds(DB, now)
       IN procs' = [procs EXCEPT ![p].todo = late,
                                 ![p].pc = IF late = {} THEN "done" ELSE "write_overdue",
                                 ![p].res = IF late = {} THEN "ok" ELSE NoStatus]
    /\ ReadOnly

\* check_sessions_overdue: one turn of the loop.
WriteOverdue(p) ==
    /\ procs[p].pc = "write_overdue"
    /\ \E i \in procs[p].todo :
          /\ sessions' = [sessions EXCEPT ![i].status = OVERDUE]
          /\ events' = [events EXCEPT ![i] = Append(@, Event("OVERDUE_SESSION", OVERDUE))]
          /\ procs' = [procs EXCEPT ![p].todo = @ \ {i},
                                    ![p].pc = IF procs[p].todo = {i} THEN "done"
                                                                     ELSE "write_overdue",
                                    ![p].res = IF procs[p].todo = {i} THEN "ok"
                                                                      ELSE NoStatus]
    /\ UNCHANGED <<now, items, strikes>>

\* RentalSession.get and the handler's tests on the loaded row.
LoadSession(p) ==
    /\ procs[p].pc = "load"
    /\ LET sid == procs[p].sid
       IN IF sid \notin SessionIds(DB)
          THEN Done(p, "ObjectNotFound")
          ELSE IF IsReturn(p) /\ InactiveSession(sessions[sid])
          THEN Done(p, "InactiveSession")
          ELSE IF procs[p].op = "start" /\ sessions[sid].status # RESERVED
          THEN Done(p, "ForbiddenAction")
          ELSE IF /\ procs[p].op = "cancel"
                  /\ (\/ procs[p].user # sessions[sid].user_id
                      \/ sessions[sid].status # RESERVED)
          THEN Done(p, "ForbiddenAction")
          ELSE procs' = [procs EXCEPT ![p].pc = "update", ![p].loaded = <<sessions[sid]>>]
    /\ ReadOnly

\* The UPDATE of a flush: the columns whose new value differs from the loaded one.
flush(current, loaded, kwargs) ==
    [f \in DOMAIN current |->
        IF f \in DOMAIN kwargs /\ differs(loaded, f, kwargs[f])
        THEN stored(f, kwargs[f])
        ELSE current[f]]

\* RentalSession.update in the return, the cancel and the start handler.
UpdateSession(p) ==
    /\ procs[p].pc = "update"
    /\ LET sid == procs[p].sid
           loaded == procs[p].loaded[1]
           kwargs == IF IsReturn(p)
                     THEN ReturnFields(loaded, procs[p].user, now)
                     ELSE IF procs[p].op = "start"
                     THEN StartFields(procs[p].user, NULL, now)
                     ELSE CancelFields(now)
       IN sessions' = [sessions EXCEPT ![sid] = flush(@, loaded, kwargs)]
    /\ Goto(p, IF procs[p].op = "start" THEN "log" ELSE "release")
    /\ UNCHANGED <<now, items, strikes, events>>

\* The log_event of the start handler.
LogStart(p) ==
    /\ procs[p].pc = "log"
    /\ events' = [events EXCEPT ![procs[p].sid] = Append(@, Event("START_SESSION", ACTIVE))]
    /\ Done(p, "ok")
    /\ UNCHANGED <<now, items, sessions, strikes>>

\* session.item.is_available = True, written by the commit of log_event.
ReleaseAndLog(p) ==
    /\ procs[p].pc = "release"
    /\ LET sid == procs[p].sid
       IN /\ items' = [items EXCEPT ![sessions[sid].item_id].is_available = TRUE]
          /\ events' = [events EXCEPT ![sid] =
                           Append(@, IF IsReturn(p)
                                     THEN Event("RETURN_SESSION", RETURNED)
                                     ELSE Event("CANCEL_SESSION", CANCELED))]
    /\ IF procs[p].op = "return_strike" THEN Goto(p, "strike") ELSE Done(p, "ok")
    /\ UNCHANGED <<now, sessions, strikes>>

\* with_strike: Strike.create for the session's user and the CREATE_STRIKE Event.
CreateStrike(p) ==
    /\ procs[p].pc = "strike"
    /\ LET sid == procs[p].sid
       IN /\ strikes' = Append(strikes, NewStrike(procs[p].loaded[1].user_id, procs[p].user,
                                                  "late", sid, now))
          /\ events' = [events EXCEPT ![sid] = Append(@, Event("CREATE_STRIKE", NoStatus))]
    /\ Done(p, "ok")
    /\ UNCHANGED <<now, items, sessions>>

(***************************************************************************)
(* Initial state: the catalog is filled, every item is on the shelf and    *)
(* nothing has been rented yet.                                            *)
(***************************************************************************)
InitTables ==
    /\ now = T0
    /\ items = [k \in ItemIds |->
                  [type_id |-> TypeOfItem[k], is_available |-> TRUE, is_deleted |-> FALSE]]
    /\ sessions = <<>>
    /\ strikes = <<>>
    /\ events = [k \in SessionKeys |-> <<>>]

Init == InitTables /\ procs = <<>>

InitRace == InitTables /\ procs = [p \in ProcIds |-> Idle]

InitRequests == InitTables /\ procs = [p \in ProcIds |-> IdleRequest]

\* The session state machine and the sweeps alone.  Strikes, which touch neither
\* sessions nor items, are issued in SpecReturn and Spec.
NextLifecycle ==
    \/ Tick
    \/ Create
    \/ Start
    \/ ReturnWithoutStrike
    \/ Cancel
    \/ SweepReservationExpiry
    \/ SweepOverdue

SpecLifecycle == Init /\ [][NextLifecycle]_vars

\* The state machine together with the catalog's availability changes.
NextCatalog ==
    \/ NextLifecycle
    \/ Get
    \/ UpdateItem
    \/ MakeAvailable

SpecCatalog == Init /\ [][NextCatalog]_vars

\* The state machine together with the staff requests that delete items and set
\* the number of available items of a type.
NextItems ==
    \/ NextLifecycle
    \/ DeleteItem
    \/ MakeAvailable

SpecItems == Init /\ [][NextItems]_vars

\* Sessions whose end_ts may have been written by the session PATCH.
CreatePatched == CreateUpTo(MaxPatchedSessions)
PatchEndTs == AdminUpdateWith({p \in Payloads : DOMAIN p = {"end_ts"}})

NextReturn ==
    \/ Tick
    \/ CreatePatched
    \/ Start
    \/ Return
    \/ Cancel
    \/ SweepReservationExpiry
    \/ SweepOverdue
    \/ PatchEndTs

SpecReturn == Init /\ [][NextReturn]_vars

\* Start at any time: the clock starts on the first day of the month, in its
\* middle or on its last day, a second before BASE_OVERDUE:00:00, at it, or a
\* second after it.
StartDays == {1, StartDay, DaysInMonth}
StartOffsets == {-1, 0, 1}
StartTimes ==
    {(d - 1) * SecondsPerDay + BASE_OVERDUE * SecondsPerHour + o :
        d \in StartDays, o \in StartOffsets}

InitStart ==
    /\ now \in StartTimes
    /\ items = [k \in ItemIds |->
                  [type_id |-> TypeOfItem[k], is_available |-> TRUE, is_deleted |-> FALSE]]
    /\ sessions = <<>>
    /\ strikes = <<>>
    /\ events = [k \in SessionKeys |-> <<>>]
    /\ procs = <<>>

NextStart ==
    \/ CreatePatched
    \/ Start
    \/ ReturnWithoutStrike
    \/ Cancel

SpecStart == InitStart /\ [][NextStart]_vars

\* Start with explicit deadlines of any UTC offset.
NextDeadline ==
    \/ Tick
    \/ CreatePatched
    \/ StartWithOffset
    \/ ReturnWithoutStrike
    \/ Cancel
    \/ SweepReservationExpiry
    \/ SweepOverdue

SpecDeadline == Init /\ [][NextDeadline]_vars

\* Sessions that are started, returned or canceled, and session PATCHes that supply
\* one field.
\* The bodies: every subset of the four fields, a field being null or set where it
\* may be null, a timestamp written with "Z" or without.
PatchSamples ==
    {p \in Payloads :
        /\ "status" \in DOMAIN p => p.status \in {RESERVED, DISMISSED}
        /\ "end_ts" \in DOMAIN p => p.end_ts \in {Naive(NULL), Aware(PatchTs)}
        /\ "actual_return_ts" \in DOMAIN p => p.actual_return_ts = Naive(PatchTs)}

PatchOneField == AdminUpdateWith({p \in PatchSamples : Cardinality(DOMAIN p) = 1})

NextUpdate ==
    \/ CreatePatched
    \/ Start
    \/ ReturnWithoutStrike
    \/ Cancel
    \/ PatchOneField

SpecUpdate == Init /\ [][NextUpdate]_vars

\* The rate limiter: reservations given up or left to expire over an hour.
CreateLimiter == CreateUpTo(MaxLimiterSessions)
TickLimiter == TickWithin(MaxLimiterElapsed)

NextLimiter ==
    \/ TickLimiter
    \/ CreateLimiter
    \/ Cancel
    \/ SweepReservationExpiry

SpecLimiter == Init /\ [][NextLimiter]_vars

\* The rate limiter next to reservations that staff closed with the session PATCH.
AdminClose ==
    /\ UpdateCount < MaxUpdates
    /\ \E sid \in 1 .. Len(sessions), staff \in Staff, status \in {RETURNED, DISMISSED} :
          /\ sessions[sid].status = RESERVED
          /\ Commit(update_rental_session(DB, sid, staff, [status |-> status]).db)
    /\ UNCHANGED <<now, procs>>

\* Sessions created in SpecThrottle.
MaxThrottleSessions == 2
CreateThrottle == CreateUpTo(MaxThrottleSessions)

NextThrottle ==
    \/ TickLimiter
    \/ CreateThrottle
    \/ Cancel
    \/ SweepReservationExpiry
    \/ AdminClose

SpecThrottle == Init /\ [][NextThrottle]_vars

\* The lifecycle with the DELETE of sessions.
NextDelete ==
    \/ Tick
    \/ CreatePatched
    \/ Start
    \/ ReturnWithoutStrike
    \/ Cancel
    \/ SweepReservationExpiry
    \/ SweepOverdue
    \/ Delete

SpecDelete == Init /\ [][NextDelete]_vars

NextRace ==
    \E p \in ProcIds :
        \/ ReceiveCreate(p)
        \/ RunDependency(p)
        \/ QueryBlocking(p)
        \/ QueryRateLimiter(p)
        \/ QueryAvailableItem(p)
        \/ InsertRentalSession(p)
        \/ MarkUnavailable(p)

SpecRace == InitRace /\ [][NextRace]_vars

\* The lifecycle of one session with strikes, issued at a Return or on their own.
NextStrike ==
    \/ Tick
    \/ CreatePatched
    \/ Start
    \/ Return
    \/ Cancel
    \/ SweepReservationExpiry
    \/ SweepOverdue
    \/ Delete
    \/ IssueStrike

SpecStrike == Init /\ [][NextStrike]_vars

\* Reads, each running both sweeps, at the same time.
NextSweepRace ==
    \/ Tick
    \/ CreatePatched
    \/ Start
    \/ \E p \in ProcIds :
          \/ ReceiveGet(p)
          \/ ReadExpired(p)
          \/ WriteExpired(p)
          \/ ReadOverdue(p)
          \/ WriteOverdue(p)

SpecSweepRace == InitRequests /\ [][NextSweepRace]_vars

\* Reads, Returns and Cancels at the same time.
NextRequestRace ==
    \/ Tick
    \/ CreatePatched
    \/ Start
    \/ \E p \in ProcIds :
          \/ ReceiveGet(p)
          \/ ReadExpired(p)
          \/ WriteExpired(p)
          \/ ReadOverdue(p)
          \/ WriteOverdue(p)
          \/ ReceiveReturn(p)
          \/ ReceiveCancel(p)
          \/ LoadSession(p)
          \/ UpdateSession(p)
          \/ ReleaseAndLog(p)

SpecRequestRace == InitRequests /\ [][NextRequestRace]_vars

\* Two handlers at the same time on one session: a Start and a Cancel, two Returns
\* with a strike.
NextHandlerRace ==
    \/ CreatePatched
    \/ Start
    \/ \E p \in ProcIds :
          \/ ReceiveStart(p)
          \/ ReceiveCancel(p)
          \/ ReceiveReturnWithStrike(p)
          \/ ReadExpired(p)
          \/ LoadSession(p)
          \/ UpdateSession(p)
          \/ LogStart(p)
          \/ ReleaseAndLog(p)
          \/ CreateStrike(p)

SpecHandlerRace == InitRequests /\ [][NextHandlerRace]_vars

\* Every handler, on the sessions the session PATCH may have rewritten.
Next ==
    \/ Tick
    \/ CreatePatched
    \/ Start
    \/ Return
    \/ Cancel
    \/ SweepReservationExpiry
    \/ SweepOverdue
    \/ Get
    \/ AdminUpdate
    \/ Delete
    \/ UpdateItem
    \/ MakeAvailable

Spec == Init /\ [][Next]_vars

(***************************************************************************)
(* Properties.                                                             *)
(***************************************************************************)
AllSessionIds == 1 .. Len(sessions)
HeldItems == {sessions[i].item_id : i \in {j \in AllSessionIds : sessions[j].status \in Holding}}
ActionTypes(i) == {events[i][n].action_type : n \in 1 .. Len(events[i])}

NoItemHeldTwice ==
    \A k \in ItemIds :
        Cardinality({i \in AllSessionIds :
                        sessions[i].item_id = k /\ sessions[i].status \in Holding}) <= 1

\* C3: when two different users ask at the same time for the one free item of a type,
\* then under every interleaving of the two requests' statements exactly one of them
\* gets a RESERVED session and the other NoneAvailable, and the item is given to one
\* session only.
ConcurrentCreateOneWinner ==
    ( /\ \A p \in ProcIds : procs[p].pc = "done"
      /\ procs[1].type = procs[2].type
      /\ procs[1].user # procs[2].user )
    => /\ {procs[1].res, procs[2].res} = {"ok", "NoneAvailable"}
       /\ Len(sessions) = 1
       /\ sessions[1].status = RESERVED

\* C4: every change of a session's status, by Create, Start, Return, Cancel, the
\* session PATCH or a sweep, follows an edge of the graph RESERVED -> ACTIVE, CANCELED,
\* EXPIRED; ACTIVE -> OVERDUE, RETURNED; OVERDUE -> RETURNED, DISMISSED: no session
\* leaves CANCELED, EXPIRED, RETURNED or DISMISSED and none moves backward.
StatusEdges ==
    {<<RESERVED, ACTIVE>>, <<RESERVED, CANCELED>>, <<RESERVED, EXPIRED>>,
     <<ACTIVE, OVERDUE>>, <<ACTIVE, RETURNED>>,
     <<OVERDUE, RETURNED>>, <<OVERDUE, DISMISSED>>}
StatusFollowsGraph ==
    [][\A i \in AllSessionIds :
          sessions'[i].status # sessions[i].status
              => <<sessions[i].status, sessions'[i].status>> \in StatusEdges]_vars

\* C5: Return on a session that is neither ACTIVE nor OVERDUE (a second Return on a
\* RETURNED session, a Return on a RESERVED one) is answered with InactiveSession in
\* every state, so however often it is repeated, and leaves the session, the items
\* and the strikes as they were.
ReturnOnInactiveSessionFails ==
    \A sid \in SessionIds(DB), staff \in Staff, with_strike \in BOOLEAN,
       reason \in StrikeReasons :
        sessions[sid].status \notin {ACTIVE, OVERDUE} =>
            LET out == accept_end_rental_session(DB, now, sid, staff, with_strike, reason)
            IN /\ out.response.res = "InactiveSession"
               /\ out.db.sessions = sessions
               /\ out.db.items = items
               /\ out.db.strikes = strikes
               /\ out.db.events = events

\* A session has been returned once, another is still RESERVED, and a Return on
\* either is refused.
ReturnOnInactiveSessionWitness ==
    \E i, j \in AllSessionIds :
        /\ sessions[i].status = RETURNED
        /\ "RETURN_SESSION" \in ActionTypes(i)
        /\ sessions[j].status = RESERVED
        /\ \A sid \in {i, j} :
              accept_end_rental_session(DB, now, sid, 9, TRUE, "late").response.res
                  = "InactiveSession"

\* What Create sees: the tables as the expiry check that runs before the handler's
\* body has left them.
Swept == check_sessions_expiration(DB, now)
OfUserAndType(db, user, type) ==
    {i \in 1 .. Len(db.sessions) :
        db.sessions[i].user_id = user /\ db.items[db.sessions[i].item_id].type_id = type}
HoldsOne(db, user, type) ==
    \E i \in OfUserAndType(db, user, type) : db.sessions[i].status \in Holding
FreeItems(db, type) ==
    {k \in ItemIds : db.items[k].type_id = type /\ db.items[k].is_available}
CanceledWithin(db, user, type, window) ==
    {i \in OfUserAndType(db, user, type) :
        db.sessions[i].status = CANCELED /\ now - db.sessions[i].reservation_ts < window}

GivenUpWithin(db, user, type, window) ==
    {i \in OfUserAndType(db, user, type) :
        /\ db.sessions[i].status \in {CANCELED, EXPIRED}
        /\ now - db.sessions[i].reservation_ts < window}

\* C6: with threshold 2 and a window of 30 minutes, a user with two canceled sessions
\* of a type, both reserved less than 30 minutes ago, and no live session of the type
\* is refused a further Create for the type with RateLimiterError and at most 30
\* minutes to wait; once 30 minutes have passed since the older of a user's two
\* canceled reservations the Create is not rate limited, and succeeds when an item of
\* the type is free.
RateLimiterWindow ==
    \A user \in Users, type \in ItemTypeIds :
      \A first \in FirstAvailable(DB, now, type) :
        LET out == create_rental_session(DB, now, user, type, first)
            mine == OfUserAndType(Swept, user, type)
            recent == CanceledWithin(Swept, user, type, 30 * 60)
        IN /\ (Cardinality(recent) >= 2 /\ ~HoldsOne(Swept, user, type)) =>
                 /\ out.response.res = "RateLimiterError"
                 /\ out.response.minutes \in 0 .. 30
                 /\ out.db = Swept
           /\ ( /\ Cardinality(mine) = 2
                /\ \A i \in mine : sessions[i].status = CANCELED
                /\ \E i \in mine : now - sessions[i].reservation_ts >= 30 * 60 ) =>
                 /\ out.response.res # "RateLimiterError"
                 /\ FreeItems(Swept, type) # {} => out.response.res = "ok"

\* Two reservations made and canceled a quarter of an hour apart, and the third Create
\* within the half hour is refused.
RateLimiterWitness ==
    \E user \in Users, type \in ItemTypeIds :
        /\ Cardinality(CanceledWithin(DB, user, type, 30 * 60)) = 2
        /\ \E i, j \in CanceledWithin(DB, user, type, 30 * 60) :
              sessions[i].reservation_ts < sessions[j].reservation_ts
        /\ \A i \in OfUserAndType(DB, user, type) :
              "CANCEL_SESSION" \in ActionTypes(i)
        /\ \A first \in FirstAvailable(DB, now, type) :
              create_rental_session(DB, now, user, type, first).response.res
                  = "RateLimiterError"

\* C7: Create is refused with SessionExists when the caller holds a RESERVED, ACTIVE
\* or OVERDUE session of the type, and with NoneAvailable when no item of the type is
\* available (and the caller is neither blocked nor rate limited); a refused Create
\* adds no session and changes no item's availability.
CreateFailures ==
    \A user \in Users, type \in ItemTypeIds :
      \A first \in FirstAvailable(DB, now, type) :
        LET out == create_rental_session(DB, now, user, type, first)
            res == out.response.res
        IN /\ HoldsOne(Swept, user, type) => res = "SessionExists"
           /\ FreeItems(Swept, type) = {} =>
                 /\ res \in {"SessionExists", "RateLimiterError", "NoneAvailable"}
                 /\ ( /\ ~HoldsOne(Swept, user, type)
                      /\ Cardinality(GivenUpWithin(Swept, user, type, 30 * 60)) < 2 )
                    => res = "NoneAvailable"
           /\ res # "ok" =>
                 /\ res \in {"SessionExists", "RateLimiterError", "NoneAvailable"}
                 /\ out.db.sessions = Swept.sessions
                 /\ out.db.items = Swept.items

\* One user has an ACTIVE session of a type: the same user's Create for the type is
\* refused with SessionExists and the other user's with NoneAvailable.
CreateFailuresWitness ==
    \E user, other \in Users, type \in ItemTypeIds :
        /\ \E i \in OfUserAndType(DB, user, type) : sessions[i].status = ACTIVE
        /\ create_rental_session(DB, now, user, type, NULL).response.res = "SessionExists"
        /\ create_rental_session(DB, now, other, type, NULL).response.res = "NoneAvailable"

\* C8: a successful Create adds exactly one session, RESERVED, reserved now, for the
\* caller, on an item of the requested type that was available when the handler's body
\* began and is unavailable afterwards; the other sessions and the other items keep
\* their values.
CreateSuccess ==
    \A user \in Users, type \in ItemTypeIds :
      \A first \in FirstAvailable(DB, now, type) :
        LET out == create_rental_session(DB, now, user, type, first)
            sid == Len(Swept.sessions) + 1
        IN out.response.res = "ok" =>
              /\ Len(out.db.sessions) = sid
              /\ SubSeq(out.db.sessions, 1, sid - 1) = Swept.sessions
              /\ out.response.sid = sid
              /\ out.db.sessions[sid].status = RESERVED
              /\ out.db.sessions[sid].reservation_ts = now
              /\ out.db.sessions[sid].user_id = user
              /\ items[out.db.sessions[sid].item_id].type_id = type
              /\ Swept.items[out.db.sessions[sid].item_id].is_available
              /\ ~out.db.items[out.db.sessions[sid].item_id].is_available
              /\ \A k \in ItemIds \ {out.db.sessions[sid].item_id} :
                    out.db.items[k] = Swept.items[k]

\* A reservation has just been made on one item while the item of the other type is
\* still free.
CreateSuccessWitness ==
    \E i \in AllSessionIds :
        /\ sessions[i].status = RESERVED
        /\ sessions[i].reservation_ts = now
        /\ events[i] = <<Event("CREATE_SESSION", RESERVED)>>
        /\ ~items[sessions[i].item_id].is_available
        /\ \E k \in ItemIds : items[k].is_available

\* C9: Start succeeds only on an existing RESERVED session, and then the session is
\* ACTIVE with start_ts = now and admin_open_id = the acting staff member while the
\* item stays unavailable; with no deadline or a future one, Start on a session in any
\* other status is refused with ForbiddenAction and on a missing session with
\* ObjectNotFound, and a refused Start changes nothing.
StartOutcome ==
    \A sid \in SessionIdInputs, staff \in Staff, deadline_ts \in ExplicitDeadlines :
        LET out == start_rental_session(DB, now, sid, staff, deadline_ts, 0)
            res == out.response.res
        IN /\ res = "ok" =>
                 /\ sid \in SessionIds(Swept)
                 /\ Swept.sessions[sid].status = RESERVED
                 /\ out.db.sessions[sid].status = ACTIVE
                 /\ out.db.sessions[sid].start_ts = now
                 /\ out.db.sessions[sid].admin_open_id = staff
                 /\ out.db.items = Swept.items
                 /\ ~out.db.items[sessions[sid].item_id].is_available
           /\ (deadline_ts = NULL \/ deadline_ts > now) =>
                 /\ (sid \in SessionIds(Swept) /\ Swept.sessions[sid].status # RESERVED)
                       => res = "ForbiddenAction"
                 /\ sid \notin SessionIds(Swept) => res = "ObjectNotFound"
           /\ res \in {"ForbiddenAction", "ObjectNotFound"} => out.db = Swept

\* A session has just been started by a staff member; a second Start on it is refused.
StartOutcomeWitness ==
    \E i \in AllSessionIds, staff \in Staff :
        /\ sessions[i].status = ACTIVE
        /\ sessions[i].start_ts = now
        /\ sessions[i].admin_open_id = staff
        /\ "START_SESSION" \in ActionTypes(i)
        /\ ~items[sessions[i].item_id].is_available
        /\ start_rental_session(DB, now, i, staff, NULL, 0).response.res = "ForbiddenAction"
        /\ start_rental_session(DB, now, Len(sessions) + 1, staff, NULL, 0).response.res
              = "ObjectNotFound"

ReturnStrikeCreation ==
    \A sid \in SessionIds(DB), staff \in Staff, with_strike \in BOOLEAN,
       reason \in StrikeReasonInputs :
        LET out == accept_end_rental_session(DB, now, sid, staff, with_strike, reason)
            n == Len(strikes)
        IN out.response.res = "ok" =>
              IF with_strike
              THEN /\ Len(out.db.strikes) = n + 1
                   /\ SubSeq(out.db.strikes, 1, n) = strikes
                   /\ out.db.strikes[n + 1].user_id = sessions[sid].user_id
                   /\ out.db.strikes[n + 1].admin_id = staff
                   /\ out.db.strikes[n + 1].reason = reason
                   /\ out.db.strikes[n + 1].session_id = sid
                   /\ ~out.db.strikes[n + 1].is_deleted
                   /\ out.response.sid = sid
                   /\ out.response.strike_id = n + 1
              ELSE /\ out.db.strikes = strikes
                   /\ out.response.strike_id = NULL

\* A session has been returned with a strike: the only Strike row is the one of that
\* Return, for the session's user.
ReturnStrikeCreationWitness ==
    \E i \in AllSessionIds :
        /\ sessions[i].status = RETURNED
        /\ "CREATE_STRIKE" \in ActionTypes(i)
        /\ Len(strikes) = 1
        /\ strikes[1].session_id = i
        /\ strikes[1].user_id = sessions[i].user_id
        /\ strikes[1].admin_id = sessions[i].admin_close_id

\* C12: a Cancel by the session's owner on a RESERVED session succeeds, sets the status
\* CANCELED and end_ts = now and makes the item available; a Cancel by anyone else, or
\* on a session in any other status, fails with ForbiddenAction and leaves the tables
\* (the session's status and the item's availability among them) as the expiry sweep
\* that runs before the handler left them.
CancelOutcome ==
    \A sid \in SessionIds(Swept), user \in Users :
        LET out == cancel_rental_session(DB, now, sid, user)
            before == Swept.sessions[sid]
            row == out.db.sessions[sid]
        IN IF user = before.user_id /\ before.status = RESERVED
           THEN /\ out.response.res = "ok"
                /\ row.status = CANCELED
                /\ row.end_ts = now
                /\ out.db.items[before.item_id].is_available
           ELSE /\ out.response.res = "ForbiddenAction"
                /\ out.db = Swept
                /\ row.status = before.status
                /\ out.db.items[before.item_id].is_available
                     = Swept.items[before.item_id].is_available

\* A reservation has just been canceled by its owner and its item is free again, while
\* another session is RESERVED, its item held: its owner may cancel it, the other user
\* may not, and nobody may cancel the canceled one again.
CancelOutcomeWitness ==
    \E i, j \in AllSessionIds :
        /\ sessions[i].status = CANCELED
        /\ "CANCEL_SESSION" \in ActionTypes(i)
        /\ sessions[i].end_ts = now
        /\ items[sessions[i].item_id].is_available
        /\ cancel_rental_session(DB, now, i, sessions[i].user_id).response.res
              = "ForbiddenAction"
        /\ Swept.sessions[j].status = RESERVED
        /\ ~items[sessions[j].item_id].is_available
        /\ cancel_rental_session(DB, now, j, sessions[j].user_id).response.res = "ok"
        /\ \E other \in Users \ {sessions[j].user_id} :
              cancel_rental_session(DB, now, j, other).response.res = "ForbiddenAction"

\* The value a request supplies for a field is the one the entity has: for a
\* timestamp, the same instant (or null for null).
SuppliesCurrentValues(row, kwargs) ==
    \A f \in DOMAIN kwargs : stored(f, kwargs[f]) = row[f]

\* C13: an AdminUpdate whose supplied values all equal the session's current values
\* (the empty payload among them), and an item availability PATCH that supplies the
\* item's current availability, are refused with AlreadyExists, append no Event and
\* leave every table as it was.
UnchangedUpdateRejected ==
    /\ \A sid \in SessionIds(DB), staff \in Staff, upd_data \in Payloads :
          SuppliesCurrentValues(sessions[sid], upd_data) =>
              LET out == update_rental_session(DB, sid, staff, upd_data)
              IN /\ out.response.res = "AlreadyExists"
                 /\ out.db = DB
    /\ \A id \in ItemIds, staff \in Staff :
          LET out == update_item(DB, id, items[id].is_available, staff)
          IN /\ out.response.res = "AlreadyExists"
             /\ out.db = DB

\* Start (with no deadline or a future one), Return, Cancel, AdminUpdate and Delete
\* all answer ObjectNotFound for the session id.
AllRefuseUnknown(db, sid) ==
    /\ \A staff \in Staff, deadline_ts \in {NULL, now + RENTAL_SESSION_EXPIRY} :
          start_rental_session(db, now, sid, staff, deadline_ts, 0).response.res
             = "ObjectNotFound"
    /\ \A staff \in Staff, with_strike \in BOOLEAN :
          accept_end_rental_session(db, now, sid, staff, with_strike, "late").response.res
             = "ObjectNotFound"
    /\ \A user \in Users :
          cancel_rental_session(db, now, sid, user).response.res = "ObjectNotFound"
    /\ \A staff \in Staff, upd_data \in Payloads :
          update_rental_session(db, sid, staff, upd_data).response.res = "ObjectNotFound"
    /\ delete_rental_session(db, sid).response.res = "ObjectNotFound"

DeleteOutcome ==
    \A sid \in SessionIds(DB) :
        LET out == delete_rental_session(DB, sid)
        IN IF sessions[sid].status \in {RESERVED, ACTIVE, OVERDUE}
           THEN /\ out.response.res = "ForbiddenAction"
                /\ out.db = DB
           ELSE /\ out.response.res = "ok"
                /\ sid \notin SessionIds(out.db)
                /\ out.db.items = items
                /\ AllRefuseUnknown(out.db, sid)

DeletedStaysDeleted ==
    \A i \in AllSessionIds :
        sessions[i].is_deleted =>
            /\ Len(sessions') >= i
            /\ sessions'[i] = sessions[i]

\* C14: a Delete of a RESERVED, ACTIVE or OVERDUE session fails with ForbiddenAction
\* and changes nothing; a Delete of a session in any other status removes the record
\* and leaves every item's availability as it was; a removed record stays removed, and
\* every Start, Return, Cancel, AdminUpdate and Delete on its id fails with
\* ObjectNotFound.
DeleteRemovesForGood ==
    /\ [](DeleteOutcome /\ \A i \in AllSessionIds : sessions[i].is_deleted =>
                                                      AllRefuseUnknown(DB, i))
    /\ [][DeletedStaysDeleted]_vars

\* A returned session has been deleted: its item is free as the Return left it, and
\* a Return or a further Delete no longer finds the session.
DeleteRemovesForGoodWitness ==
    \E i \in AllSessionIds :
        /\ sessions[i].is_deleted
        /\ sessions[i].status = RETURNED
        /\ items[sessions[i].item_id].is_available
        /\ delete_rental_session(DB, i).response.res = "ObjectNotFound"
        /\ \A staff \in Staff :
              accept_end_rental_session(DB, now, i, staff, FALSE, "").response.res
                 = "ObjectNotFound"

\* RESERVED with reservation_ts + ReservationWindow < now.
PastWindow(i) ==
    /\ i \in SessionIds(DB)
    /\ sessions[i].status = RESERVED
    /\ sessions[i].reservation_ts + RENTAL_SESSION_EXPIRY < now

PastDeadline(i) ==
    /\ i \in SessionIds(DB)
    /\ sessions[i].status = ACTIVE
    /\ sessions[i].deadline_ts < now

\* C16: after the overdue sweep at time now, every session that was ACTIVE with
\* deadline_ts < now is OVERDUE, otherwise as it was, and its item is still
\* unavailable; every other session (ACTIVE with deadline_ts >= now, or in another
\* status) is as it was; the sweep changes no item.
OverdueSweepOutcome ==
    LET out == check_sessions_overdue(DB, now)
    IN /\ Len(out.sessions) = Len(sessions)
       /\ out.items = items
       /\ \A i \in AllSessionIds :
             IF PastDeadline(i)
             THEN /\ out.sessions[i] = [sessions[i] EXCEPT !.status = OVERDUE]
                  /\ ~out.items[sessions[i].item_id].is_available
             ELSE out.sessions[i] = sessions[i]

\* The sweep has moved a rental past its deadline to OVERDUE, its item still held, and
\* has left alone a rental started since, whose deadline lies ahead.
OverdueSweepOutcomeWitness ==
    \E i, j \in AllSessionIds :
        /\ sessions[i].status = OVERDUE
        /\ "OVERDUE_SESSION" \in ActionTypes(i)
        /\ sessions[i].deadline_ts < now
        /\ ~items[sessions[i].item_id].is_available
        /\ sessions[j].status = ACTIVE
        /\ sessions[j].deadline_ts >= now
        /\ ~items[sessions[j].item_id].is_available
        /\ check_sessions_overdue(DB, now) = DB

EventCount(i, action_type) ==
    Cardinality({n \in 1 .. Len(events[i]) : events[i][n].action_type = action_type})

\* C17: however often the sweeps run, one after another or at the same time, a session
\* is transitioned once: an EXPIRED session has exactly one EXPIRE_SESSION Event and
\* an OVERDUE one exactly one OVERDUE_SESSION Event, no session has more than one of
\* either, and a sweep that finds no candidate changes nothing.
SweepsTransitionOnce ==
    /\ \A i \in AllSessionIds :
          /\ EventCount(i, "EXPIRE_SESSION") <= 1
          /\ EventCount(i, "OVERDUE_SESSION") <= 1
          /\ sessions[i].status = EXPIRED => EventCount(i, "EXPIRE_SESSION") = 1
          /\ sessions[i].status = OVERDUE => EventCount(i, "OVERDUE_SESSION") = 1
    /\ ExpiredIds(DB, now) = {} => check_sessions_expiration(DB, now) = DB
    /\ OverdueIds(DB, now) = {} => check_sessions_overdue(DB, now) = DB

\* C18: when a Return and a read's overdue sweep run at the same time on an ACTIVE
\* session past its deadline, then under every interleaving of their statements, once
\* both are through and the Return has succeeded, the session is RETURNED and its item
\* available: the sweep has not written OVERDUE over RETURNED.
ReturnAndSweepSerialize ==
    \A p, q \in ProcIds :
        ( /\ procs[p].op = "return" /\ procs[p].pc = "done" /\ procs[p].res = "ok"
          /\ procs[q].op = "get" /\ procs[q].pc = "done" )
        => /\ sessions[procs[p].sid].status = RETURNED
           /\ items[sessions[procs[p].sid].item_id].is_available

\* C19: when the expiry sweep and the owner's Cancel run at the same time on a
\* RESERVED session past its window, then under every interleaving of their
\* statements the session gets one terminal status, CANCELED or EXPIRED, which the
\* other operation does not overwrite, and the item is available from then on.
TerminalStatusKept ==
    \A i \in AllSessionIds :
        sessions[i].status \in {CANCELED, EXPIRED} =>
            /\ sessions'[i].status = sessions[i].status
            /\ items[sessions[i].item_id].is_available
                  => items'[sessions[i].item_id].is_available

CancelAndSweepSerialize == [][TerminalStatusKept]_vars

\* A step of an operation (time stands still) finds no session RESERVED past its
\* window or ACTIVE past its deadline that it does not leave EXPIRED or OVERDUE: the
\* sweeps have run before the operation takes effect.
StaleReconciledFirst ==
    now' = now =>
        \A i \in AllSessionIds :
            /\ PastWindow(i) => sessions'[i].status = EXPIRED
            /\ PastDeadline(i) => sessions'[i].status = OVERDUE

\* C20: no operation acts on a session that is silently stale: when a Create, Start,
\* Return, Cancel, AdminUpdate or Delete takes effect, every session RESERVED past its
\* window has been moved to EXPIRED and every session ACTIVE past its deadline to
\* OVERDUE; Start and Cancel do not act on a reservation past its window and Return
\* does not act on an ACTIVE session past its deadline.
NoOperationOnStaleSession == [][StaleReconciledFirst]_vars

\* From before to after, the session has got exactly count more Events and no other
\* session has got any.
Appended(before, after, sid, count) ==
    \A k \in SessionKeys \ {NULL} :
        Len(after.events[k]) = Len(before.events[k]) + (IF k = sid THEN count ELSE 0)

\* The outcome of an operation on session sid that began on the tables before: one
\* more Event for the session when it succeeded, none when it failed.
LogsOnce(before, out, sid) ==
    Appended(before, out.db, sid, IF out.response.res = "ok" THEN 1 ELSE 0)

\* C21: every successful Create, Start, Return, Cancel, AdminUpdate and Delete appends
\* exactly one Event for its session and a failed one none, and a sweep appends exactly
\* one Event for every session it transitions and none for any other.
EveryOperationLogsOnce ==
    /\ \A k \in SessionKeys \ {NULL} :
          /\ Len(Swept.events[k])
                = Len(events[k]) + (IF k \in ExpiredIds(DB, now) THEN 1 ELSE 0)
          /\ Len(check_sessions_overdue(DB, now).events[k])
                = Len(events[k]) + (IF k \in OverdueIds(DB, now) THEN 1 ELSE 0)
    /\ \A user \in Users, type \in ItemTypeIds :
          \A first \in FirstAvailable(DB, now, type) :
             LogsOnce(Swept, create_rental_session(DB, now, user, type, first),
                      Len(sessions) + 1)
    /\ \A sid \in SessionIdInputs, staff \in Staff :
          /\ \A deadline_ts \in ExplicitDeadlines :
                LogsOnce(Swept, start_rental_session(DB, now, sid, staff, deadline_ts, 0), sid)
          /\ \A with_strike \in BOOLEAN, reason \in StrikeReasons :
                LogsOnce(DB, accept_end_rental_session(DB, now, sid, staff, with_strike,
                                                       reason), sid)
          /\ \A upd_data \in Payloads :
                LogsOnce(DB, update_rental_session(DB, sid, staff, upd_data), sid)
    /\ \A sid \in SessionIdInputs :
          /\ \A user \in Users : LogsOnce(Swept, cancel_rental_session(DB, now, sid, user), sid)
          /\ LogsOnce(DB, delete_rental_session(DB, sid), sid)

\* C22: a Strike issued on its own succeeds for any user id, staff id and reason, with
\* a session id and without one; it adds exactly one Strike row, without a session
\* link when no session id was given, and changes no session and no item.
IssueStrikeOutcome ==
    \A strike_info \in StrikePosts, staff \in Staff :
        strike_info.session_id \in {NULL} \cup SessionIdsWithDeleted(DB) =>
            LET out == create_strike(DB, now, strike_info, staff)
                n == Len(strikes)
            IN /\ out.response.res = "ok"
               /\ Len(out.db.strikes) = n + 1
               /\ SubSeq(out.db.strikes, 1, n) = strikes
               /\ out.db.strikes[n + 1].user_id = strike_info.user_id
               /\ out.db.strikes[n + 1].admin_id = strike_info.admin_id
               /\ out.db.strikes[n + 1].reason = strike_info.reason
               /\ out.db.strikes[n + 1].session_id = strike_info.session_id
               /\ out.db.sessions = sessions
               /\ out.db.items = items
(***************************************************************************)
(* PATCH /itemtype/available/{id}: the number of available items.          *)
(***************************************************************************)
\* C23: after make_item_type_available(type, count) with count >= 0, the number of
\* available items among the type's items that no RESERVED or ACTIVE session
\* refers to is min(count, number of such items), total_available reports that
\* number and items_changed the number of items whose flag was flipped; a
\* negative count is rejected and changes nothing.
MakeAvailableOutcome ==
    \A id \in ItemTypeIds, count \in -1 .. 2, staff \in Staff :
      \A order \in FlipChoices(DB, id, count) :
        LET out == make_item_type_available(DB, id, count, staff, order)
            pool == ItemsWithoutSession(DB, id)
            target == IF count < Cardinality(pool) THEN count ELSE Cardinality(pool)
            flipped == {k \in DOMAIN items :
                          out.db.items[k].is_available # items[k].is_available}
        IN IF count < 0
           THEN out.response.res # "ok" /\ out.db = DB
           ELSE /\ out.response.res = "ok"
                /\ Cardinality({k \in pool : out.db.items[k].is_available}) = target
                /\ out.response.total_available = target
                /\ out.response.items_changed = Cardinality(flipped)

(***************************************************************************)
(* The rate limiter of Create: what it counts.                             *)
(***************************************************************************)
Counted(db, user, type) ==
    {i \in 1 .. Len(db.sessions) :
        /\ ~db.sessions[i].is_deleted
        /\ db.sessions[i].user_id = user
        /\ TypeOfItem[db.sessions[i].item_id] = type
        /\ db.sessions[i].status \in {EXPIRED, CANCELED}
        /\ now - db.sessions[i].reservation_ts < LimiterWindow}

\* C24: the rate limiter counts exactly the caller's own sessions of the requested
\* type in EXPIRED or CANCELED that were reserved inside the trailing window;
\* sessions of other users, of other types, reserved before the window, or in
\* RETURNED or DISMISSED never contribute.  A Create that no live session of the
\* caller blocks is throttled exactly when that count reaches the threshold.
LimiterCountsOwnGivenUp ==
    \A user \in Users, type \in ItemTypeIds :
      \A first \in FirstAvailable(DB, now, type) :
        LET out == create_rental_session(DB, now, user, type, first)
        IN ~HoldsOne(Swept, user, type) =>
              ( out.response.res = "RateLimiterError"
                  <=> Cardinality(Counted(Swept, user, type))
                         >= RENTAL_SESSION_CREATE_NUMBER_LIMITER )

\* A caller with one canceled or expired reservation of a type inside the window and
\* another session of the type, reserved inside the window but closed by staff as
\* RETURNED or DISMISSED, is not throttled.
LimiterCountsWitness ==
    \E user \in Users, type \in ItemTypeIds :
         /\ Cardinality(Counted(DB, user, type)) = 1
         /\ \E i \in OfUserAndType(DB, user, type) :
               /\ sessions[i].status \in {RETURNED, DISMISSED}
               /\ now - sessions[i].reservation_ts < LimiterWindow
         /\ \A first \in FirstAvailable(DB, now, type) :
               create_rental_session(DB, now, user, type, first).response.res
                   # "RateLimiterError"

\* C25: a throttled Create reports the whole minutes from now until the oldest
\* counted reservation_ts plus the window, rounded down and never below 0: a value
\* between 0 and the window's length in minutes.
RetryAfterMinutes ==
    \A user \in Users, type \in ItemTypeIds :
      \A first \in FirstAvailable(DB, now, type) :
        LET out == create_rental_session(DB, now, user, type, first)
            counted == Counted(Swept, user, type)
            oldest == CHOOSE i \in counted :
                         \A j \in counted :
                            Swept.sessions[i].reservation_ts <= Swept.sessions[j].reservation_ts
            wait == Swept.sessions[oldest].reservation_ts + LimiterWindow - now
        IN out.response.res = "RateLimiterError" =>
              /\ wait >= 0
              /\ out.response.minutes * SecondsPerMinute <= wait
              /\ wait < (out.response.minutes + 1) * SecondsPerMinute
              /\ out.response.minutes \in 0 .. RENTAL_SESSION_CREATE_TIME_LIMITER_MINUTES

\* A throttled caller whose two counted reservations were made 15 minutes and a
\* second apart: 14 minutes and 59 seconds are left of the older one's window, and
\* the response says 14.
RetryAfterWitness ==
    \E user \in Users, type \in ItemTypeIds :
      LET counted == Counted(DB, user, type)
      IN /\ \E i, j \in counted : sessions[i].reservation_ts < sessions[j].reservation_ts
         /\ \E i \in counted :
               (sessions[i].reservation_ts + LimiterWindow - now) % SecondsPerMinute # 0
         /\ \A first \in FirstAvailable(DB, now, type) :
               LET out == create_rental_session(DB, now, user, type, first)
               IN out.response.res = "RateLimiterError" /\ out.response.minutes = 14

(***************************************************************************)
(* Start: the deadline.                                                    *)
(***************************************************************************)
\* The first BASE_OVERDUE:00:00 after t, in this month or on the first day of the
\* next one.
NextBaseOverdue(t) ==
    Min({d * SecondsPerDay + BASE_OVERDUE * SecondsPerHour : d \in 0 .. DaysInMonth}
          \ (0 .. t))

\* C26: at every time of every day of the month a Start without a deadline succeeds
\* and sets deadline_ts to the next BASE_OVERDUE:00:00 (today's when now is before
\* it, else the following calendar day's, also when that day is in the next month),
\* which is strictly later than now.
StartDefaultDeadline ==
    \A sid \in SessionIds(DB), staff \in Staff :
        Swept.sessions[sid].status = RESERVED =>
            LET out == start_rental_session(DB, now, sid, staff, NULL, 0)
            IN /\ out.response.res = "ok"
               /\ out.db.sessions[sid].deadline_ts = NextBaseOverdue(now)
               /\ out.db.sessions[sid].deadline_ts > now

\* C27: a Start with an explicit deadline that is not strictly later than now fails
\* with InvalidDeadline and leaves the session RESERVED with its fields unchanged; a
\* Start with an explicit deadline strictly later than now stores exactly that
\* deadline as deadline_ts.
ExplicitDeadlineOutcome ==
    \A sid \in SessionIds(Swept), staff \in Staff, deadline_ts \in OffsetDeadlines,
       utcoffset \in UtcOffsets :
        Swept.sessions[sid].status = RESERVED =>
            LET out == start_rental_session(DB, now, sid, staff, deadline_ts, utcoffset)
            IN /\ deadline_ts <= now =>
                     /\ out.response.res = "InvalidDeadline"
                     /\ out.db.sessions[sid] = Swept.sessions[sid]
               /\ deadline_ts > now =>
                     /\ out.response.res = "ok"
                     /\ out.db.sessions[sid].deadline_ts = deadline_ts

(***************************************************************************)
(* PATCH /rental-sessions/{session_id}: what it writes.                    *)
(***************************************************************************)
\* The value a payload supplies for a field: for a timestamp, its instant.
Supplied(upd_data, f) ==
    IF f \in {"end_ts", "actual_return_ts"} THEN upd_data[f].instant ELSE upd_data[f]

\* C28: a successful AdminUpdate changes exactly the fields present in the payload
\* (status, end_ts, actual_return_ts, admin_close_id) to the supplied values; every
\* field absent from the payload and every other field of the session keeps its
\* value, and so does every other session.
AdminUpdateFrame ==
    \A sid \in SessionIds(DB), staff \in Staff, upd_data \in PatchSamples :
        LET out == update_rental_session(DB, sid, staff, upd_data)
            row == out.db.sessions[sid]
        IN out.response.res = "ok" =>
              /\ \A f \in DOMAIN upd_data : row[f] = Supplied(upd_data, f)
              /\ \A f \in DOMAIN row \ DOMAIN upd_data : row[f] = sessions[sid][f]
              /\ \A i \in AllSessionIds \ {sid} : out.db.sessions[i] = sessions[i]

\* A started session whose end_ts alone was written by a session PATCH: it is still
\* ACTIVE, opened by the staff member, with no closing staff member and no return time.
AdminUpdateFrameWitness ==
    \E i \in AllSessionIds :
        /\ "UPDATE_SESSION" \in ActionTypes(i)
        /\ "START_SESSION" \in ActionTypes(i)
        /\ sessions[i].end_ts = PatchTs
        /\ sessions[i].status = ACTIVE
        /\ sessions[i].admin_open_id \in Staff
        /\ sessions[i].admin_close_id = NULL
        /\ sessions[i].actual_return_ts = NULL
        /\ sessions[i].start_ts # NULL

(***************************************************************************)
(* Status writes and the item's availability.                              *)
(***************************************************************************)
HeldAfter(k) ==
    \E j \in 1 .. Len(sessions') :
        /\ sessions'[j].item_id = k
        /\ ~sessions'[j].is_deleted
        /\ sessions'[j].status \in Holding

\* C29: every write that changes a session's status, an AdminUpdate that supplies a
\* new status among them, updates the item's is_available in the same step: right
\* after the write the item is available exactly when no session holds it.
StatusWriteSetsAvailability ==
    [][\A i \in 1 .. Len(sessions) :
          sessions'[i].status # sessions[i].status =>
              (items'[sessions[i].item_id].is_available <=> ~HeldAfter(sessions[i].item_id))]_vars

(***************************************************************************)
(* How a reservation ends without being started.                           *)
(***************************************************************************)
\* The step is a successful Cancel of session i by its owner.
CanceledByOwner(i) ==
    LET out == cancel_rental_session(DB, now, i, sessions[i].user_id)
    IN /\ out.response.res = "ok"
       /\ <<items', sessions', strikes', events'>>
             = <<out.db.items, out.db.sessions, out.db.strikes, out.db.events>>

\* The expiry sweep puts every stale reservation in EXPIRED and releases its item.
SweepExpiresAndReleases ==
    \A i \in AllSessionIds :
        PastWindow(i) =>
            /\ Swept.sessions[i].status = EXPIRED
            /\ Swept.items[sessions[i].item_id].is_available

\* C30: a RESERVED session reaches CANCELED only through a Cancel issued by its
\* owner, and every closing of a stale reservation by the system puts it in EXPIRED
\* and releases its item: no automatic expiry path sets CANCELED or leaves the item
\* unavailable.
CanceledOnlyByOwner ==
    [][/\ SweepExpiresAndReleases
       /\ \A i \in AllSessionIds :
             (sessions[i].status = RESERVED /\ sessions'[i].status = CANCELED)
                 => CanceledByOwner(i)]_vars

(***************************************************************************)
(* Two handlers at the same time on one session.                           *)
(***************************************************************************)
StrikesOf(i) == {n \in 1 .. Len(strikes) : strikes[n].session_id = i}

\* C31: when a Start and a Cancel, or two Returns with a strike, are served at the
\* same time on one session, then under every interleaving of their statements
\* exactly one succeeds and the other fails its precondition (ForbiddenAction or
\* InactiveSession); the session is never ACTIVE with its item released, and the two
\* Returns create one Strike, not two.
HandlersSerialize ==
    \A p, q \in ProcIds :
        ( /\ p # q
          /\ procs[p].pc = "done" /\ procs[q].pc = "done"
          /\ procs[p].sid = procs[q].sid
          /\ procs[p].sid \in AllSessionIds
          /\ \/ procs[p].op = "start" /\ procs[q].op = "cancel"
             \/ procs[p].op = "return_strike" /\ procs[q].op = "return_strike" )
        => /\ ~(procs[p].res = "ok" /\ procs[q].res = "ok")
           /\ sessions[procs[p].sid].status = ACTIVE
                 => ~items[sessions[procs[p].sid].item_id].is_available
           /\ Cardinality(StrikesOf(procs[p].sid)) <= 1

(***************************************************************************)
(* DELETE /strike/{id}                                                     *)
(***************************************************************************)
\* Strike.get raises ObjectNotFound for a missing or deleted row; Strike.delete
\* marks the row; ActionLogger.log_event is then called without its required
\* `details` argument and raises TypeError, after the delete has been written.
delete_strike(db, id, staff) ==
    IF ~(id \in 1 .. Len(db.strikes) /\ ~db.strikes[id].is_deleted)
    THEN Out(db, Error("ObjectNotFound"))
    ELSE Out([db EXCEPT !.strikes[id].is_deleted = TRUE], Error("TypeError"))

\* Strike ids of requests: the table's and one that names no strike.
StrikeIdInputs == 1 .. (MaxStrikes + 1)

DeleteStrike ==
    /\ \E id \in StrikeIdInputs, staff \in Staff :
          Commit(delete_strike(DB, id, staff).db)
    /\ UNCHANGED <<now, procs>>

\* One session with its strikes, and the requests that delete sessions, items and
\* strikes.
NextStrikeDeletion ==
    \/ CreatePatched
    \/ Start
    \/ Return
    \/ Cancel
    \/ IssueStrike
    \/ Delete
    \/ DeleteItem
    \/ DeleteStrike

SpecStrikeDeletion == Init /\ [][NextStrikeDeletion]_vars

\* C32: a Strike is removed or marked deleted only by the explicit DELETE of that
\* Strike: every step keeps all Strike rows, and a row that is marked deleted by a
\* step is the row named by a DELETE /strike/{id} taken in that step; deleting an
\* Item or a session marks no Strike.
StrikesOutliveOtherOperations ==
    [][/\ Len(strikes') >= Len(strikes)
       /\ \A n \in 1 .. Len(strikes) :
             (~strikes[n].is_deleted /\ strikes'[n].is_deleted)
                => strikes' = delete_strike(DB, n, CHOOSE a \in Staff : TRUE).db.strikes]_vars

\* C33: the audit log is append-only: in every step the Events of every session
\* (and those of no session) are the Events before the step, unchanged and in the
\* same order, followed by the Events the step appended; no step modifies an
\* Event, removes it or marks it deleted, item deletion included.
AuditLogAppendOnly ==
    [][\A key \in DOMAIN events :
          /\ Len(events'[key]) >= Len(events[key])
          /\ SubSeq(events'[key], 1, Len(events[key])) = events[key]]_vars

\* C34: in every reachable state each RentalSession is linked to at most one
\* Strike (a row of the Strike table that is not deleted and carries the session's
\* id), whatever Returns with a strike and POST /strike requests naming the
\* session have been served.
AtMostOneStrikePerSession ==
    \A i \in 1 .. Len(sessions) :
        Cardinality({n \in StrikesOf(i) : ~strikes[n].is_deleted}) <= 1

(***************************************************************************)
(* GET /rental-sessions/{session_id} and the list reads                    *)
(***************************************************************************)
\* Both sweeps, then db.session.query(RentalSession).filter(id == session_id)
\* .first(): a plain query, soft-deleted rows included.
get_rental_session(db, t, session_id) ==
    LET db1 == check_sessions_overdue(check_sessions_expiration(db, t), t)
    IN IF session_id \in SessionIdsWithDeleted(db1)
       THEN Out(db1, Ok(session_id))
       ELSE Out(db1, Error("ObjectNotFound"))

\* The ids of the rows the list reads return: db_session.query(RentalSession), a
\* plain query, filtered by status (no flag set: every status), by user_id and by
\* item_type_id (0: no filter).
get_rental_sessions_common(db, to_show, type, user) ==
    {i \in SessionIdsWithDeleted(db) :
        /\ db.sessions[i].status \in (IF to_show = {} THEN RentStatus ELSE to_show)
        /\ user # 0 => db.sessions[i].user_id = user
        /\ type # 0 => item_type_id(db, i) = type}

\* The status flags of a list request: none, or one status.
StatusFlags == {{}} \cup {{s} : s \in RentStatus}

\* C35: a deleted session is excluded by every read path: GET by id answers
\* ObjectNotFound, no list read returns it, the blocking-session check and the
\* rate limiter of Create do not count it, and Start, Return, Cancel and
\* AdminUpdate on its id fail with ObjectNotFound.
DeletedSessionsExcluded ==
    \A i \in AllSessionIds :
        sessions[i].is_deleted =>
            LET swept == get_rental_sessions(DB, now).db
            IN /\ get_rental_session(DB, now, i).response.res = "ObjectNotFound"
               /\ \A to_show \in StatusFlags, type \in {0} \cup ItemTypeIds,
                     user \in {0} \cup Users :
                     i \notin get_rental_sessions_common(swept, to_show, type, user)
               /\ \A user \in Users, type \in ItemTypeIds :
                     /\ i \notin blocking_session(DB, user, type)
                     /\ i \notin rate_limiter_sessions(DB, user, type, now)
               /\ AllRefuseUnknown(DB, i)

(***************************************************************************)
(* Create requests at the same time, several items of one type free.       *)
(***************************************************************************)
\* A catalog whose items are all of the first type, all available.
InitSeveralFree ==
    /\ now = T0
    /\ items = [k \in ItemIds |->
                  [type_id |-> Min(ItemTypeIds), is_available |-> TRUE,
                   is_deleted |-> FALSE]]
    /\ sessions = <<>>
    /\ strikes = <<>>
    /\ events = [k \in SessionKeys |-> <<>>]
    /\ procs = [p \in ProcIds |-> Idle]

\* The session PATCH with a status alone.
PatchStatus == AdminUpdateWith({[status |-> s] : s \in RentStatus})

NextCreateRace ==
    \/ NextRace
    \/ Cancel
    \/ PatchStatus

SpecCreateRace == InitSeveralFree /\ [][NextCreateRace]_vars

\* C36: in every reachable state a user has at most one session in RESERVED,
\* ACTIVE or OVERDUE per item type, whatever Create requests of that user and
\* other operations have been served and however their statements interleave,
\* several items of the type being free.
OneHoldingSessionPerUserAndType ==
    \A i, j \in SessionIds(DB) :
        ( /\ i # j
          /\ sessions[i].user_id = sessions[j].user_id
          /\ item_type_id(DB, i) = item_type_id(DB, j)
          /\ sessions[i].status \in Holding )
        => sessions[j].status \notin Holding

(***************************************************************************)
(* The order of Create's refusals.                                         *)
(***************************************************************************)
\* Sessions created in SpecOrder.
MaxOrderSessions == 3
\* Create requests for the first item type.
CreateOrder ==
    /\ \E user \in Users :
         \E first \in FirstAvailable(DB, now, Min(ItemTypeIds)) :
            LET out == create_rental_session(DB, now, user, Min(ItemTypeIds), first)
            IN /\ Len(out.db.sessions) <= MaxOrderSessions
               /\ Commit(out.db)
    /\ UNCHANGED <<now, procs>>

\* Reservations, rentals that end, and the session PATCH of a status: a user can
\* hold a session of a type while two of their reservations of the type count for
\* the rate limiter and no item of the type is free.
PatchGivenUp == AdminUpdateWith({[status |-> s] : s \in {CANCELED, EXPIRED}})

NextOrder ==
    \/ CreateOrder
    \/ Start
    \/ ReturnWithoutStrike
    \/ Cancel
    \/ PatchGivenUp

SpecOrder == Init /\ [][NextOrder]_vars

OverLimit(db, user, type) ==
    Cardinality(Counted(db, user, type)) >= RENTAL_SESSION_CREATE_NUMBER_LIMITER

NoneFree(db, type) ==
    ~\E k \in ItemIds :
         ~db.items[k].is_deleted /\ db.items[k].type_id = type /\ db.items[k].is_available

\* C37: Create evaluates its failure conditions in a fixed order: a caller who
\* holds a RESERVED, ACTIVE or OVERDUE session of the type gets SessionExists,
\* over the rate limit or not, an item free or not; a caller without one who is
\* over the rate limit gets RateLimiterError, an item free or not; NoneAvailable is
\* the answer exactly when neither holds and no item of the type is free.
CreateFailureOrder ==
    \A user \in Users, type \in ItemTypeIds :
      \A first \in FirstAvailable(DB, now, type) :
        LET res == create_rental_session(DB, now, user, type, first).response.res
            holds == HoldsOne(Swept, user, type)
            over == OverLimit(Swept, user, type)
        IN /\ holds => res = "SessionExists"
           /\ (~holds /\ over) => res = "RateLimiterError"
           /\ res = "NoneAvailable" <=> (~holds /\ ~over /\ NoneFree(Swept, type))

\* A caller holds a session of the type, is over the rate limit and finds no item
\* of the type free: the answer is SessionExists.
CreateFailureOrderWitness ==
    \E user \in Users, type \in ItemTypeIds :
        /\ HoldsOne(DB, user, type)
        /\ OverLimit(DB, user, type)
        /\ NoneFree(DB, type)
        /\ create_rental_session(DB, now, user, type, NULL).response.res = "SessionExists"

(***************************************************************************)
(* Reservations under a clock that keeps running and requests that keep    *)
(* arriving.                                                               *)
(***************************************************************************)
\* Sessions created in SpecLive, and the seconds its clock runs: a reservation is
\* accepted while two more ticks fit, so that the clock can pass the end of its
\* window.
MaxLiveSessions == 2
LiveHorizon == 3 * MaxElapsed

TickLive == TickWithin(LiveHorizon)

\* Create requests for the first item type.
CreateLive ==
    /\ now + 2 * MaxElapsed <= T0 + LiveHorizon
    /\ \E user \in Users :
         \E first \in FirstAvailable(DB, now, Min(ItemTypeIds)) :
            LET out == create_rental_session(DB, now, user, Min(ItemTypeIds), first)
            IN /\ Len(out.db.sessions) <= MaxLiveSessions
               /\ Commit(out.db)
    /\ UNCHANGED <<now, procs>>

NextLive ==
    \/ TickLive
    \/ CreateLive
    \/ Start
    \/ Cancel
    \/ SweepReservationExpiry

\* Time keeps advancing, and a request whose route runs check_sessions_expiration
\* keeps arriving.
SpecLive ==
    /\ Init
    /\ [][NextLive]_vars
    /\ WF_vars(TickLive)
    /\ WF_vars(SweepReservationExpiry)

IsReserved(i) == Len(sessions) >= i /\ sessions[i].status = RESERVED

\* A later Create, which hands out available items only, has given the item of
\* session i to a later session.
GivenOutAgain(i) ==
    \E j \in AllSessionIds : j > i /\ sessions[j].item_id = sessions[i].item_id

\* C38: if time keeps advancing and a request that runs the expiry sweep keeps
\* arriving, every RESERVED session eventually leaves RESERVED, to ACTIVE,
\* CANCELED or EXPIRED, and the item of a reservation that is never started
\* eventually becomes available again: it is available, or has been given out
\* again (a Create runs the sweep and may take the released item in the same
\* request).
ReservationsEventuallyLeave ==
    \A i \in 1 .. MaxLiveSessions :
        /\ IsReserved(i)
              ~> (Len(sessions) >= i /\ sessions[i].status \in {ACTIVE, CANCELED, EXPIRED})
        /\ IsReserved(i)
              ~> ( /\ Len(sessions) >= i
                   /\ \/ sessions[i].status = ACTIVE
                      \/ items[sessions[i].item_id].is_available
                      \/ GivenOutAgain(i) )

\* A reservation that nobody started or canceled has been expired by the sweep
\* after the clock passed the end of its window, and its item is available.
ReservationsEventuallyLeaveWitness ==
    \E i \in AllSessionIds :
        /\ sessions[i].status = EXPIRED
        /\ sessions[i].reservation_ts + RENTAL_SESSION_EXPIRY < now
        /\ "EXPIRE_SESSION" \in ActionTypes(i)
        /\ items[sessions[i].item_id].is_available

(***************************************************************************)
(* The audit log against the session table.                                *)
(***************************************************************************)
\* The Events of session i whose details carry a status.
StatusEvents(i) == {n \in 1 .. Len(events[i]) : events[i][n].status # NoStatus}

\* No request is between its first statement and its answer.
Quiescent == \A p \in DOMAIN procs : procs[p].pc \in {"idle", "done"}

\* C39: the audit log agrees with the session state: whenever no request is in
\* progress, the status recorded in the most recently appended status-bearing
\* Event of a session equals the session's current status, whatever operations
\* and sweeps have run and however their statements interleaved.
AuditLogAgreesWithStatus ==
    Quiescent =>
        \A i \in AllSessionIds :
            StatusEvents(i) # {} =>
                LET last == CHOOSE n \in StatusEvents(i) : \A m \in StatusEvents(i) : m <= n
                IN events[i][last].status = sessions[i].status

====
